---------------------------- MODULE Spec2Model ----------------------------
(***************************************************************************)
(* Model of the macro-dispatch renderer of src/format.py                   *)
(* (CustomLatexNodes2Text and custom_latex_to_text).                       *)
(*                                                                         *)
(* Text is a sequence of one-character strings, so that "op in text",      *)
(* text.strip() and the f-string concatenations of the handlers are        *)
(* computed character by character.  A node of the parsed tree is a record *)
(* with a "kind" field; a render returns the text produced, the state the  *)
(* process-global random generator is left in, and the exception raised    *)
(* ("none" when the call returns).                                         *)
(***************************************************************************)
EXTENDS Integers, Sequences, FiniteSets, TLC

VARIABLES pc, doc, out, tape, src, prev, call, registry, threads

vars == <<pc, doc, out, tape, src, prev, call, registry, threads>>

(***************************************************************************)
(* Bounds of the model.                                                    *)
(***************************************************************************)
\* longest text of a chars node
MaxLen == 2
\* longest text of a root index
MaxIndexLen == 2
\* deepest nesting of boxed constructs
MaxDepth == 2
\* most sibling nodes in a document
MaxNodes == 2

(***************************************************************************)
(* Characters and texts.                                                   *)
(***************************************************************************)
\* the operators list of needs_parentheses and of is_complex
operators == <<"+", "-", "*", "/", "^", " ">>

\* characters str.strip() and float() treat as white space
Whitespace == {" ", "\t", "\n"}

\* characters of the chars nodes of the model: the six operator
\* characters and two that are none of them
Chars == {"x", "2", "+", "-", "*", "/", "^", " "}

\* characters of the root indices of the model
IndexChars == {"2", "3", "0", "n", " "}

Digits == <<"0", "1", "2", "3", "4", "5", "6", "7", "8", "9">>

StrsUpTo(A, n) == UNION {[1..k -> A] : k \in 0..n}

Texts == StrsUpTo(Chars, MaxLen)

IndexTexts == StrsUpTo(IndexChars, MaxIndexLen)

\* Python's "op in text" for a one-character op
Contains(text, ch) == \E i \in 1..Len(text) : text[i] = ch

RECURSIVE lstrip(_)
lstrip(text) ==
    IF text # <<>> /\ Head(text) \in Whitespace THEN lstrip(Tail(text)) ELSE text

RECURSIVE rstrip(_)
rstrip(text) ==
    IF text # <<>> /\ text[Len(text)] \in Whitespace
    THEN rstrip(SubSeq(text, 1, Len(text) - 1))
    ELSE text

\* str.strip()
strip(text) == rstrip(lstrip(text))

(***************************************************************************)
(* float(root_index) and str(1.0 / radicand), for the texts IndexChars     *)
(* can spell: float() strips white space and then wants a numeral; of the  *)
(* numerals only plain digit strings can be spelled.  A parsed number is   *)
(* kept as the integer it denotes.                                         *)
(***************************************************************************)
DigitValue(ch) == CHOOSE d \in 0..9 : Digits[d + 1] = ch

IsDigit(ch) == \E d \in 1..10 : Digits[d] = ch

RECURSIVE DigitsValue(_)
DigitsValue(text) ==
    IF text = <<>> THEN 0
    ELSE 10 * DigitsValue(SubSeq(text, 1, Len(text) - 1)) + DigitValue(text[Len(text)])

\* float(text): [exc |-> "ValueError"] or [exc |-> "none", value |-> n]
float(text) ==
    LET s == strip(text)
    IN  IF s # <<>> /\ \A i \in 1..Len(s) : IsDigit(s[i])
        THEN [exc |-> "none", value |-> DigitsValue(s)]
        ELSE [exc |-> "ValueError", value |-> 0]

\* the digits str(1.0 / n) shows after the decimal point, n >= 1, found by
\* long division of rem / n.  The shortest repr of a double has at most 17
\* significant digits: a reciprocal that does not terminate shows 16 or 17
\* of them, and a terminating one of the model's range shows them all.
ReprDigits == 17

RECURSIVE DecimalDigits(_, _, _)
DecimalDigits(rem, n, k) ==
    IF rem = 0 \/ k = 0 THEN <<>>
    ELSE <<Digits[((10 * rem) \div n) + 1]>> \o DecimalDigits((10 * rem) % n, n, k - 1)

\* the zeros between the decimal point and the first digit of rem / n
RECURSIVE LeadingZeros(_, _)
LeadingZeros(rem, n) ==
    IF 10 * rem >= n THEN 0 ELSE 1 + LeadingZeros(10 * rem, n)

RECURSIVE Power10(_)
Power10(k) == IF k = 0 THEN 1 ELSE 10 * Power10(k - 1)

\* repr of a reciprocal below 0.0001: the significant digits, a point after
\* the first when more follow, and the exponent in two digits at least
ScientificInverse(n) ==
    LET z      == LeadingZeros(1, n)
        digits == DecimalDigits(Power10(z), n, ReprDigits)
        e      == z + 1
    IN  <<Head(digits)>>
        \o (IF Len(digits) > 1 THEN <<".">> \o Tail(digits) ELSE <<>>)
        \o <<"e", "-">>
        \o (IF e < 10 THEN <<"0", Digits[e + 1]>>
            ELSE <<Digits[(e \div 10) + 1], Digits[(e % 10) + 1]>>)

\* str(1.0 / n) for n >= 1: "1.0" for 1, "0.<digits>" down to 0.0001 and
\* the exponent notation of repr below
StrInverse(n) ==
    IF n = 1 THEN <<"1", ".", "0">>
    ELSE IF n <= 10000 THEN <<"0", ".">> \o DecimalDigits(1, n, ReprDigits)
    ELSE ScientificInverse(n)

\* str(inv_radicand).split('.')[1] if '.' in str(inv_radicand) else ""
decimal_part(s) ==
    IF Contains(s, ".")
    THEN LET i == CHOOSE j \in 1..Len(s) : s[j] = "." /\ \A m \in 1..(j - 1) : s[m] # "."
         IN  SubSeq(s, i + 1, Len(s))
    ELSE <<>>

(***************************************************************************)
(* Nodes.  A macro node carries the list of its parsed arguments; an       *)
(* argument is a node or None.  A node without nodeargd is an argnlist of  *)
(* length 0: every handler treats the two alike.                           *)
(***************************************************************************)
None == [kind |-> "none"]

CharsNode(s) == [kind |-> "chars", chars |-> s]

GroupNode(nl) == [kind |-> "group", nodelist |-> nl]

MacroNode(name, args) == [kind |-> "macro", macroname |-> name, argnlist |-> args]

\* the argument {s}: a group holding one chars node, or nothing for {}
Arg(s) == GroupNode(IF s = <<>> THEN <<>> ELSE <<CharsNode(s)>>)

(***************************************************************************)
(* The random generator.  Its state is the outcomes its next calls will    *)
(* give; a call yields the first and leaves the rest.  An outcome is the   *)
(* interval the uniform variate falls in, cut at 0.4, 0.5 and 0.8:         *)
(* 0 = [0, 0.4), 1 = [0.4, 0.5), 2 = [0.5, 0.8), 3 = [0.8, 1).             *)
(***************************************************************************)
Cells == 0..3

\* the random calls one handler run makes at most: sqrt_rng, exp_rng, decimal_rng
MaxDrawsPerHandler == 3

\* random.randint(0, 1)
randint01(cell) == IF cell >= 2 THEN 1 ELSE 0

(***************************************************************************)
(* Results of a render.                                                    *)
(***************************************************************************)
Ret(text, t) == [text |-> text, tape |-> t, exc |-> "none"]

Raise(e, t) == [text |-> <<>>, tape |-> t, exc |-> e]

(***************************************************************************)
(* Tables of the renderer.  A character outside ASCII is written as one    *)
(* character named by its code point ("U+03B1" is the letter alpha).       *)
(***************************************************************************)
\* _greek_letters(): name -> symbol
greek_letters ==
    ( "alpha" :> <<"U+03B1">> @@
      "beta" :> <<"U+03B2">> @@
      "gamma" :> <<"U+03B3">> @@
      "delta" :> <<"U+03B4">> @@
      "epsilon" :> <<"U+03B5">> @@
      "varepsilon" :> <<"U+03F5">> @@
      "zeta" :> <<"U+03B6">> @@
      "eta" :> <<"U+03B7">> @@
      "theta" :> <<"U+03B8">> @@
      "vartheta" :> <<"U+03D1">> @@
      "iota" :> <<"U+03B9">> @@
      "kappa" :> <<"U+03BA">> @@
      "varkappa" :> <<"U+03F0">> @@
      "lambda" :> <<"U+03BB">> @@
      "mu" :> <<"U+03BC">> @@
      "nu" :> <<"U+03BD">> @@
      "xi" :> <<"U+03BE">> @@
      "varpi" :> <<"U+03D6">> @@
      "rho" :> <<"U+03C1">> @@
      "varrho" :> <<"U+03F1">> @@
      "sigma" :> <<"U+03C3">> @@
      "varsigma" :> <<"U+03C2">> @@
      "tau" :> <<"U+03C4">> @@
      "upsilon" :> <<"U+03C5">> @@
      "phi" :> <<"U+03C6">> @@
      "varphi" :> <<"U+03D5">> @@
      "chi" :> <<"U+03C7">> @@
      "psi" :> <<"U+03C8">> @@
      "omega" :> <<"U+03C9">> @@
      "Gamma" :> <<"U+0393">> @@
      "Delta" :> <<"U+0394">> @@
      "Theta" :> <<"U+0398">> @@
      "Lambda" :> <<"U+039B">> @@
      "Xi" :> <<"U+039E">> @@
      "Pi" :> <<"U+03A0">> @@
      "Sigma" :> <<"U+03A3">> @@
      "Upsilon" :> <<"U+03A5">> @@
      "Phi" :> <<"U+03A6">> @@
      "Psi" :> <<"U+03A8">> @@
      "Omega" :> <<"U+03A9">>)

\* a macro name as the text an f-string or a return of node.macroname gives
Spell ==
    ( "_" :> <<"_">> @@
      "sqrt" :> <<"s", "q", "r", "t">> @@
      "frac" :> <<"f", "r", "a", "c">> @@
      "dfrac" :> <<"d", "f", "r", "a", "c">> @@
      "tfrac" :> <<"t", "f", "r", "a", "c">> @@
      "binom" :> <<"b", "i", "n", "o", "m">> @@
      "mathrm" :> <<"m", "a", "t", "h", "r", "m">> @@
      "boxed" :> <<"b", "o", "x", "e", "d">> @@
      "text" :> <<"t", "e", "x", "t">> @@
      "textbf" :> <<"t", "e", "x", "t", "b", "f">> @@
      "textit" :> <<"t", "e", "x", "t", "i", "t">> @@
      "pi" :> <<"p", "i">> @@
      "infty" :> <<"i", "n", "f", "t", "y">> @@
      "alpha" :> <<"a", "l", "p", "h", "a">> @@
      "beta" :> <<"b", "e", "t", "a">> @@
      "gamma" :> <<"g", "a", "m", "m", "a">> @@
      "delta" :> <<"d", "e", "l", "t", "a">> @@
      "epsilon" :> <<"e", "p", "s", "i", "l", "o", "n">> @@
      "varepsilon" :> <<"v", "a", "r", "e", "p", "s", "i", "l", "o", "n">> @@
      "zeta" :> <<"z", "e", "t", "a">> @@
      "eta" :> <<"e", "t", "a">> @@
      "theta" :> <<"t", "h", "e", "t", "a">> @@
      "vartheta" :> <<"v", "a", "r", "t", "h", "e", "t", "a">> @@
      "iota" :> <<"i", "o", "t", "a">> @@
      "kappa" :> <<"k", "a", "p", "p", "a">> @@
      "varkappa" :> <<"v", "a", "r", "k", "a", "p", "p", "a">> @@
      "lambda" :> <<"l", "a", "m", "b", "d", "a">> @@
      "mu" :> <<"m", "u">> @@
      "nu" :> <<"n", "u">> @@
      "xi" :> <<"x", "i">> @@
      "varpi" :> <<"v", "a", "r", "p", "i">> @@
      "rho" :> <<"r", "h", "o">> @@
      "varrho" :> <<"v", "a", "r", "r", "h", "o">> @@
      "sigma" :> <<"s", "i", "g", "m", "a">> @@
      "varsigma" :> <<"v", "a", "r", "s", "i", "g", "m", "a">> @@
      "tau" :> <<"t", "a", "u">> @@
      "upsilon" :> <<"u", "p", "s", "i", "l", "o", "n">> @@
      "phi" :> <<"p", "h", "i">> @@
      "varphi" :> <<"v", "a", "r", "p", "h", "i">> @@
      "chi" :> <<"c", "h", "i">> @@
      "psi" :> <<"p", "s", "i">> @@
      "omega" :> <<"o", "m", "e", "g", "a">> @@
      "Gamma" :> <<"G", "a", "m", "m", "a">> @@
      "Delta" :> <<"D", "e", "l", "t", "a">> @@
      "Theta" :> <<"T", "h", "e", "t", "a">> @@
      "Lambda" :> <<"L", "a", "m", "b", "d", "a">> @@
      "Xi" :> <<"X", "i">> @@
      "Pi" :> <<"P", "i">> @@
      "Sigma" :> <<"S", "i", "g", "m", "a">> @@
      "Upsilon" :> <<"U", "p", "s", "i", "l", "o", "n">> @@
      "Phi" :> <<"P", "h", "i">> @@
      "Psi" :> <<"P", "s", "i">> @@
      "Omega" :> <<"O", "m", "e", "g", "a">> @@
      "times" :> <<"t", "i", "m", "e", "s">> @@
      "cdot" :> <<"c", "d", "o", "t">> @@
      "pm" :> <<"p", "m">> @@
      "mp" :> <<"m", "p">> @@
      "approx" :> <<"a", "p", "p", "r", "o", "x">> @@
      "sim" :> <<"s", "i", "m">> @@
      "equiv" :> <<"e", "q", "u", "i", "v">> @@
      "subseteq" :> <<"s", "u", "b", "s", "e", "t", "e", "q">> @@
      "iff" :> <<"i", "f", "f">> @@
      "mapsto" :> <<"m", "a", "p", "s", "t", "o">> @@
      "ldots" :> <<"l", "d", "o", "t", "s">> @@
      "cdots" :> <<"c", "d", "o", "t", "s">> @@
      "dots" :> <<"d", "o", "t", "s">> @@
      "leq" :> <<"l", "e", "q">> @@
      "geq" :> <<"g", "e", "q">> @@
      "neq" :> <<"n", "e", "q">> @@
      "div" :> <<"d", "i", "v">> @@
      "subset" :> <<"s", "u", "b", "s", "e", "t">> @@
      "in" :> <<"i", "n">> @@
      "cup" :> <<"c", "u", "p">> @@
      "cap" :> <<"c", "a", "p">> @@
      "emptyset" :> <<"e", "m", "p", "t", "y", "s", "e", "t">> @@
      "to" :> <<"t", "o">> @@
      "quad" :> <<"q", "u", "a", "d">> @@
      "qquad" :> <<"q", "q", "u", "a", "d">> @@
      "\\" :> <<"\\">> @@
      "sum" :> <<"s", "u", "m">> @@
      "int" :> <<"i", "n", "t">> @@
      "lim" :> <<"l", "i", "m">> @@
      "prod" :> <<"p", "r", "o", "d">> @@
      "nabla" :> <<"n", "a", "b", "l", "a">> @@
      "iint" :> <<"i", "i", "n", "t">> @@
      "iiint" :> <<"i", "i", "i", "n", "t">> @@
      "oint" :> <<"o", "i", "n", "t">> @@
      "mathbb" :> <<"m", "a", "t", "h", "b", "b">> @@
      "left" :> <<"l", "e", "f", "t">> @@
      "right" :> <<"r", "i", "g", "h", "t">> @@
      "sin" :> <<"s", "i", "n">> @@
      "cos" :> <<"c", "o", "s">> @@
      "tan" :> <<"t", "a", "n">> @@
      "log" :> <<"l", "o", "g">> @@
      "ln" :> <<"l", "n">> @@
      "{" :> <<"{">> @@
      "}" :> <<"}">> @@
      "n" :> <<"n">> @@
      "foo" :> <<"f", "o", "o">> @@
      "bar" :> <<"b", "a", "r">>)

(***************************************************************************)
(* The tree renderer of the parsing library (LatexNodes2Text), which the   *)
(* handlers call back through l2tobj.nodelist_to_text.                     *)
(***************************************************************************)
RECURSIVE nodelist_to_text(_, _)

\* the l2tobj.nodelist_to_text([arg]) of a handler
render_arg(arg, t) == nodelist_to_text(<<arg>>, t)

(***************************************************************************)
(* _custom_sqrt_handler                                                    *)
(***************************************************************************)
needs_parentheses(text) ==
    \E i \in 1..Len(operators) : Contains(text, operators[i])

\* f"sqrt({content})"
sqrt_form(content) == <<"s", "q", "r", "t", "(">> \o content \o <<")">>

\* f"(1/{root_index})"
literal_fraction(root_index) == <<"(", "1", "/">> \o root_index \o <<")">>

\* the four returns that join the radicand and the exponent
exponent_form(content, exp_rng, exp_value) ==
    IF needs_parentheses(content)
    THEN IF exp_rng = 0
         THEN <<"(">> \o content \o <<")", "^">> \o exp_value
         ELSE <<"(">> \o content \o <<")", "*", "*">> \o exp_value
    ELSE IF exp_rng = 0
         THEN content \o <<"^">> \o exp_value
         ELSE content \o <<"*", "*">> \o exp_value

\* try: radicand = float(root_index)
\* except (ValueError, TypeError): radicand = None
MutParseNoExcept(root_index) ==
    LET p == float(root_index)
    IN  [exc |-> p.exc, isNone |-> FALSE, value |-> p.value]

parse_root_index(root_index) ==
    LET p == float(root_index)
    IN  IF p.exc \in {"ValueError", "TypeError"}
        THEN [exc |-> "none", isNone |-> TRUE, value |-> 0]
        ELSE [exc |-> p.exc, isNone |-> FALSE, value |-> p.value]

\* the exponent of a root with an index: its text and the generator state
\* after the decimal_rng draw, which 1.0 / 0 raises before reaching
MutExpValueIgnoresDecimalRng(radicand, root_index, t) ==
    IF ~radicand.isNone
    THEN IF radicand.value = 0
         THEN Ret(literal_fraction(root_index), t)
         ELSE LET inv_radicand == StrInverse(radicand.value)
              IN  IF Len(decimal_part(inv_radicand)) <= 5
                  THEN Ret(inv_radicand, Tail(t))
                  ELSE Ret(literal_fraction(root_index), Tail(t))
    ELSE Ret(literal_fraction(root_index), t)

MutExpValueZeroIsInf(radicand, root_index, t) ==
    IF ~radicand.isNone
    THEN LET inv_radicand == IF radicand.value = 0 THEN <<"i", "n", "f">>
                             ELSE StrInverse(radicand.value)
             decimal_rng  == randint01(Head(t))
         IN  IF Len(decimal_part(inv_radicand)) <= 5 /\ decimal_rng = 0
             THEN Ret(inv_radicand, Tail(t))
             ELSE Ret(literal_fraction(root_index), Tail(t))
    ELSE Ret(literal_fraction(root_index), t)

exp_value_of(radicand, root_index, t) ==
    IF ~radicand.isNone
    THEN IF radicand.value = 0
         THEN Ret(literal_fraction(root_index), t)
         ELSE LET inv_radicand == StrInverse(radicand.value)
                  decimal_rng  == randint01(Head(t))
              IN  IF Len(decimal_part(inv_radicand)) <= 5 /\ decimal_rng = 0
                  THEN Ret(inv_radicand, Tail(t))
                  ELSE Ret(literal_fraction(root_index), Tail(t))
    ELSE Ret(literal_fraction(root_index), t)

\* the branch of an index that is not None
MutSqrtWithIndexNoRadical(node, sqrt_rng, t) ==
    LET ri == render_arg(node.argnlist[1], t)
        ct == render_arg(node.argnlist[2], ri.tape)
        radicand == parse_root_index(ri.text)
    IN  IF ri.exc # "none" THEN ri
        ELSE IF ct.exc # "none" THEN ct
        ELSE IF radicand.exc # "none" THEN Raise(radicand.exc, ct.tape)
        ELSE LET exp_rng == randint01(Head(ct.tape))
                 ev      == exp_value_of(radicand, ri.text, Tail(ct.tape))
             IN  Ret(exponent_form(ct.text, exp_rng, ev.text), ev.tape)

sqrt_with_index(node, sqrt_rng, t) ==
    LET ri == render_arg(node.argnlist[1], t)
        ct == render_arg(node.argnlist[2], ri.tape)
        radicand == parse_root_index(ri.text)
    IN  IF ri.exc # "none" THEN ri
        ELSE IF ct.exc # "none" THEN ct
        ELSE IF radicand.exc # "none" THEN Raise(radicand.exc, ct.tape)
        ELSE IF ~radicand.isNone /\ radicand.value = 2 /\ sqrt_rng = 0
        THEN Ret(sqrt_form(ct.text), ct.tape)
        ELSE LET exp_rng == randint01(Head(ct.tape))
                 ev      == exp_value_of(radicand, ri.text, Tail(ct.tape))
             IN  Ret(exponent_form(ct.text, exp_rng, ev.text), ev.tape)

\* the two branches without an index: the optional argument is None, or
\* the argument list holds the radicand alone
sqrt_without_index(arg, sqrt_rng, t) ==
    LET ct == render_arg(arg, t)
    IN  IF ct.exc # "none" THEN ct
        ELSE IF sqrt_rng = 0
        THEN Ret(sqrt_form(ct.text), ct.tape)
        ELSE LET exp_rng     == randint01(ct.tape[1])
                 decimal_rng == randint01(ct.tape[2])
                 exp_value   == IF decimal_rng = 0
                                THEN <<"0", ".", "5">>
                                ELSE <<"(", "1", "/", "2", ")">>
             IN  Ret(exponent_form(ct.text, exp_rng, exp_value),
                     Tail(Tail(ct.tape)))

MutSqrtEmptyIndexIsAbsent(node, t) ==
    IF Len(node.argnlist) = 0 THEN Ret(<<>>, t)
    ELSE LET sqrt_rng == randint01(Head(t))
         IN  IF Len(node.argnlist) >= 2
             THEN IF node.argnlist[1] # None
                     /\ render_arg(node.argnlist[1], Tail(t)).text # <<>>
                  THEN sqrt_with_index(node, sqrt_rng, Tail(t))
                  ELSE sqrt_without_index(node.argnlist[2], sqrt_rng, Tail(t))
             ELSE sqrt_without_index(node.argnlist[1], sqrt_rng, Tail(t))

custom_sqrt_handler(node, t) ==
    IF Len(node.argnlist) = 0 THEN Ret(<<>>, t)
    ELSE LET sqrt_rng == randint01(Head(t))
         IN  IF Len(node.argnlist) >= 2
             THEN IF node.argnlist[1] # None
                  THEN sqrt_with_index(node, sqrt_rng, Tail(t))
                  ELSE sqrt_without_index(node.argnlist[2], sqrt_rng, Tail(t))
             ELSE sqrt_without_index(node.argnlist[1], sqrt_rng, Tail(t))

(***************************************************************************)
(* _custom_frac_handler                                                    *)
(***************************************************************************)
is_complex(text) ==
    \E i \in 1..Len(operators) : Contains(strip(text), operators[i])

MutFracSwapped(node, t) ==
    IF Len(node.argnlist) < 2 THEN Ret(<<>>, t)
    ELSE LET numerator   == render_arg(node.argnlist[2], t)
             denominator == render_arg(node.argnlist[1], numerator.tape)
         IN  IF numerator.exc # "none" THEN numerator
             ELSE IF denominator.exc # "none" THEN denominator
             ELSE IF is_complex(numerator.text) \/ is_complex(denominator.text)
             THEN Ret(<<"(">> \o numerator.text \o <<")", "/", "(">>
                          \o denominator.text \o <<")">>, denominator.tape)
             ELSE Ret(numerator.text \o <<"/">> \o denominator.text,
                      denominator.tape)

custom_frac_handler(node, t) ==
    IF Len(node.argnlist) < 2 THEN Ret(<<>>, t)
    ELSE LET numerator   == render_arg(node.argnlist[1], t)
             denominator == render_arg(node.argnlist[2], numerator.tape)
         IN  IF numerator.exc # "none" THEN numerator
             ELSE IF denominator.exc # "none" THEN denominator
             ELSE IF is_complex(numerator.text) \/ is_complex(denominator.text)
             THEN Ret(<<"(">> \o numerator.text \o <<")", "/", "(">>
                          \o denominator.text \o <<")">>, denominator.tape)
             ELSE Ret(numerator.text \o <<"/">> \o denominator.text,
                      denominator.tape)

(***************************************************************************)
(* _custom_binom_handler, _custom_mathrm_handler, _custom_boxed_handler    *)
(***************************************************************************)
MutBinomSwapped(node, t) ==
    IF Len(node.argnlist) < 2 THEN Ret(<<>>, t)
    ELSE LET n == render_arg(node.argnlist[1], t)
             k == render_arg(node.argnlist[2], n.tape)
         IN  IF n.exc # "none" THEN n
             ELSE IF k.exc # "none" THEN k
             ELSE Ret(<<"C", "(">> \o k.text \o <<",">> \o n.text \o <<")">>,
                      k.tape)

custom_binom_handler(node, t) ==
    IF Len(node.argnlist) < 2 THEN Ret(<<>>, t)
    ELSE LET n == render_arg(node.argnlist[1], t)
             k == render_arg(node.argnlist[2], n.tape)
         IN  IF n.exc # "none" THEN n
             ELSE IF k.exc # "none" THEN k
             ELSE Ret(<<"C", "(">> \o n.text \o <<",">> \o k.text \o <<")">>,
                      k.tape)

MutMathrmNoStrip(node, t) ==
    IF Len(node.argnlist) = 0 THEN Ret(<<>>, t)
    ELSE LET content == render_arg(node.argnlist[1], t)
         IN  IF content.exc # "none" THEN content
             ELSE IF content.text = <<"e">> THEN Ret(<<"e">>, content.tape)
             ELSE content

custom_mathrm_handler(node, t) ==
    IF Len(node.argnlist) = 0 THEN Ret(<<>>, t)
    ELSE LET content == render_arg(node.argnlist[1], t)
         IN  IF content.exc # "none" THEN content
             ELSE IF strip(content.text) = <<"e">> THEN Ret(<<"e">>, content.tape)
             ELSE content

MutBoxedOnce(node, t) ==
    IF Len(node.argnlist) = 0 THEN Ret(<<>>, t)
    ELSE LET content == render_arg(node.argnlist[1], t)
         IN  IF content.exc # "none" THEN content
             ELSE IF content.text # <<>> /\ Head(content.text) = "["
             THEN content
             ELSE Ret(<<"[">> \o content.text \o <<"]">>, content.tape)

custom_boxed_handler(node, t) ==
    IF Len(node.argnlist) = 0 THEN Ret(<<>>, t)
    ELSE LET content == render_arg(node.argnlist[1], t)
         IN  IF content.exc # "none" THEN content
             ELSE Ret(<<"[">> \o content.text \o <<"]">>, content.tape)

\* the first argument rendered and returned as it is, "" without arguments:
\* text, textbf, textit and mathbb
first_arg_text(node, t) ==
    IF Len(node.argnlist) = 0 THEN Ret(<<>>, t)
    ELSE render_arg(node.argnlist[1], t)

(***************************************************************************)
(* The stochastic symbol handlers: random.choices(choices, weights)[0]     *)
(* takes the first choice whose cumulative weight exceeds the variate.     *)
(***************************************************************************)
\* weights [0.4, 0.4, 0.2]
custom_infty_handler(node, t) ==
    LET cell == Head(t)
    IN  Ret(IF cell = 0 THEN <<"i", "n", "f", "i", "n", "i", "t", "y">>
            ELSE IF cell \in {1, 2} THEN <<"i", "n", "f">>
            ELSE <<"U+221E">>, Tail(t))

\* weights [0.8, 0.2]
custom_pi_handler(node, t) ==
    Ret(IF Head(t) <= 2 THEN <<"p", "i">> ELSE <<"U+03C0">>, Tail(t))

\* weights [0.8, 0.2]
MutGreekPeeks(name, t) ==
    LET symbol == IF name \in DOMAIN greek_letters THEN greek_letters[name]
                  ELSE Spell[name]
    IN  Ret(IF Head(t) <= 2 THEN Spell[name] ELSE symbol, t)

get_greek_letter_text(name, t) ==
    LET symbol == IF name \in DOMAIN greek_letters THEN greek_letters[name]
                  ELSE Spell[name]
    IN  Ret(IF Head(t) <= 2 THEN Spell[name] ELSE symbol, Tail(t))

(***************************************************************************)
(* macro_node_to_text: the dispatch on the macro name.                     *)
(***************************************************************************)
\* LatexNodes2Text.macro_node_to_text of the parsing library, reached for a
\* name the chain handles nowhere: the default handler renders the bare
\* name as literal text
super_macro_node_to_text(node, t) == Ret(Spell[node.macroname], t)

\* the names one of the branches of macro_node_to_text handles
HandledNames ==
    {"sqrt", "frac", "dfrac", "tfrac", "binom", "mathrm", "boxed",
     "text", "textbf", "textit", "pi", "infty"}
    \cup DOMAIN greek_letters
    \cup {"times", "cdot", "pm", "mp", "approx", "sim", "equiv", "subseteq",
          "iff", "mapsto", "ldots", "cdots", "dots", "leq", "geq", "neq",
          "div", "subset", "in", "cup", "cap", "emptyset", "to", "quad",
          "qquad", "\\", "sum", "int", "lim", "prod", "nabla", "iint",
          "iiint", "oint", "mathbb", "left", "right", "sin", "cos", "tan",
          "log", "ln", "{", "}", "n"}

\* the branches that return one fixed text
MutSymbolTextCdotDot(name) ==
    CASE name = "times" -> <<"*">>
      [] name = "cdot" -> <<"U+00B7">>
      [] name = "pm" -> <<"+", "/", "-">>
      [] name = "mp" -> <<"-", "/", "+">>
      [] name = "approx" -> <<"~">>
      [] name = "sim" -> <<"~", "=">>
      [] name = "equiv" -> <<"=", "=", "=">>
      [] name = "subseteq" -> <<"s", "u", "b", "s", "e", "t", "=">>
      [] name = "iff" -> <<"<", "=", ">">>
      [] name = "mapsto" -> <<"|", "-", ">">>
      [] name \in {"ldots", "cdots", "dots"} -> <<".", ".", ".">>
      [] name = "leq" -> <<"<", "=">>
      [] name = "geq" -> <<">", "=">>
      [] name = "neq" -> <<"!", "=">>
      [] name = "div" -> <<"U+00F7">>
      [] name = "subset" -> <<"U+2282">>
      [] name = "in" -> <<"U+2208">>
      [] name = "cup" -> <<"U+222A">>
      [] name = "cap" -> <<"U+2229">>
      [] name = "emptyset" -> <<"U+2205">>
      [] name = "to" -> <<"U+2192">>
      [] name = "quad" -> <<" ", " ", " ", " ">>
      [] name = "qquad" -> <<" ", " ", " ", " ", " ", " ", " ", " ">>
      [] name = "\\" -> <<"\n">>
      [] name = "{" -> <<"{">>
      [] name = "}" -> <<"}">>
      [] name = "n" -> <<"\n">>

symbol_text(name) ==
    CASE name \in {"times", "cdot"} -> <<"*">>
      [] name = "pm" -> <<"+", "/", "-">>
      [] name = "mp" -> <<"-", "/", "+">>
      [] name = "approx" -> <<"~">>
      [] name = "sim" -> <<"~", "=">>
      [] name = "equiv" -> <<"=", "=", "=">>
      [] name = "subseteq" -> <<"s", "u", "b", "s", "e", "t", "=">>
      [] name = "iff" -> <<"<", "=", ">">>
      [] name = "mapsto" -> <<"|", "-", ">">>
      [] name \in {"ldots", "cdots", "dots"} -> <<".", ".", ".">>
      [] name = "leq" -> <<"<", "=">>
      [] name = "geq" -> <<">", "=">>
      [] name = "neq" -> <<"!", "=">>
      [] name = "div" -> <<"U+00F7">>
      [] name = "subset" -> <<"U+2282">>
      [] name = "in" -> <<"U+2208">>
      [] name = "cup" -> <<"U+222A">>
      [] name = "cap" -> <<"U+2229">>
      [] name = "emptyset" -> <<"U+2205">>
      [] name = "to" -> <<"U+2192">>
      [] name = "quad" -> <<" ", " ", " ", " ">>
      [] name = "qquad" -> <<" ", " ", " ", " ", " ", " ", " ", " ">>
      [] name = "\\" -> <<"\n">>
      [] name = "{" -> <<"{">>
      [] name = "}" -> <<"}">>
      [] name = "n" -> <<"\n">>

SymbolNames ==
    {"times", "cdot", "pm", "mp", "approx", "sim", "equiv", "subseteq",
     "iff", "mapsto", "ldots", "cdots", "dots", "leq", "geq", "neq", "div",
     "subset", "in", "cup", "cap", "emptyset", "to", "quad", "qquad", "\\",
     "{", "}", "n"}

\* return super().macro_node_to_text(node), the end of the chain
MutUnhandledEmpty(node, t) == Ret(<<>>, t)

unhandled_macro(node, t) == super_macro_node_to_text(node, t)

macro_node_to_text(node, t) ==
    LET name == node.macroname
    IN  IF name = "_" /\ Len(node.argnlist) > 0
        THEN LET subscript_content == render_arg(node.argnlist[1], t)
             IN  IF subscript_content.exc # "none" THEN subscript_content
                 ELSE Ret(<<"_", "(">> \o subscript_content.text \o <<")">>,
                          subscript_content.tape)
        ELSE IF name = "sqrt" THEN custom_sqrt_handler(node, t)
        ELSE IF name \in {"frac", "dfrac", "tfrac"} THEN custom_frac_handler(node, t)
        ELSE IF name = "binom" THEN custom_binom_handler(node, t)
        ELSE IF name = "mathrm" THEN custom_mathrm_handler(node, t)
        ELSE IF name = "boxed" THEN custom_boxed_handler(node, t)
        ELSE IF name \in {"text", "textbf", "textit"} THEN first_arg_text(node, t)
        ELSE IF name = "pi" THEN custom_pi_handler(node, t)
        ELSE IF name = "infty" THEN custom_infty_handler(node, t)
        ELSE IF name \in DOMAIN greek_letters THEN get_greek_letter_text(name, t)
        ELSE IF name \in {"times", "cdot", "pm", "mp", "approx", "sim", "equiv",
                          "subseteq", "iff", "mapsto", "ldots", "cdots", "dots",
                          "leq", "geq", "neq", "div", "subset", "in", "cup",
                          "cap", "emptyset", "to", "quad", "qquad", "\\"}
        THEN Ret(symbol_text(name), t)
        ELSE IF name \in {"sum", "int", "lim", "prod", "nabla", "iint", "iiint", "oint"}
        THEN Ret(<<"\\">> \o Spell[name], t)
        ELSE IF name = "mathbb" THEN first_arg_text(node, t)
        ELSE IF name \in {"left", "right"} THEN Ret(<<>>, t)
        ELSE IF name \in {"sin", "cos", "tan", "log", "ln"} THEN Ret(Spell[name], t)
        ELSE IF name \in {"{", "}", "n"} THEN Ret(symbol_text(name), t)
        ELSE unhandled_macro(node, t)

(***************************************************************************)
(* The tree renderer: each node in order, the outputs concatenated with    *)
(* nothing between them.  A chars node gives its characters as they are, a *)
(* brace group its rendered children, an absent argument nothing.  An      *)
(* exception ends the render where it is raised.                           *)
(***************************************************************************)
node_to_text(node, t) ==
    CASE node.kind = "chars" -> Ret(node.chars, t)
      [] node.kind = "group" -> nodelist_to_text(node.nodelist, t)
      [] node.kind = "macro" -> macro_node_to_text(node, t)
      [] node.kind = "none"  -> Ret(<<>>, t)
      [] node.kind = "comment" -> Ret(<<>>, t)

nodelist_to_text(nodelist, t) ==
    IF nodelist = <<>> THEN Ret(<<>>, t)
    ELSE LET first == node_to_text(Head(nodelist), t)
         IN  IF first.exc # "none" THEN first
             ELSE LET rest == nodelist_to_text(Tail(nodelist), first.tape)
                  IN  IF rest.exc # "none" THEN rest
                      ELSE Ret(first.text \o rest.text, rest.tape)

\* CustomLatexNodes2Text.latex_to_text on the node list the parser returns
MutLatexToTextStripped(nodelist, t) ==
    LET r == nodelist_to_text(nodelist, t)
    IN  [r EXCEPT !.text = strip(r.text)]

latex_to_text(nodelist, t) == nodelist_to_text(nodelist, t)

\* custom_latex_to_text: a converter is built and renders the document
custom_latex_to_text(nodelist, t) == latex_to_text(nodelist, t)

(***************************************************************************)
(* The latex context the converter is built with: an ordered list of       *)
(* categories, each a table from macro names to argument signatures.  A    *)
(* signature is the sequence of its argument characters: "{" a mandatory   *)
(* argument, "[" an optional one.                                          *)
(***************************************************************************)
std_macro(name, args) == [macroname |-> name, arguments_spec_list |-> args]

\* the names _get_custom_macro_specs registers without arguments, in order
NoArgumentNames ==
    <<"log", "ln", "sin", "cos", "tan", "lim">>

SymbolSpecNames ==
    <<"alpha", "beta", "gamma", "delta", "epsilon", "varepsilon", "zeta", "eta",
      "theta", "vartheta", "iota", "kappa", "varkappa", "lambda", "mu", "nu",
      "xi", "pi", "varpi", "rho", "varrho", "sigma", "varsigma", "tau",
      "upsilon", "phi", "varphi", "chi", "psi", "omega",
      "Gamma", "Delta", "Theta", "Lambda", "Xi", "Pi", "Sigma",
      "Upsilon", "Phi", "Psi", "Omega",
      "infty", "times", "cdot", "pm", "mp", "approx", "sim", "equiv",
      "subseteq", "iff", "mapsto", "ldots", "cdots", "dots",
      "leq", "geq", "neq", "div", "subset", "in", "cup", "cap", "emptyset",
      "to", "quad", "qquad", "sum", "int", "lim", "prod", "nabla",
      "iint", "iiint", "oint", "mathbb", "left", "right", "\\",
      "{", "}", "n">>

get_custom_macro_specs ==
    <<std_macro("sqrt", <<"[", "{">>),
      std_macro("frac", <<"{", "{">>),
      std_macro("dfrac", <<"{", "{">>),
      std_macro("tfrac", <<"{", "{">>),
      std_macro("binom", <<"{", "{">>),
      std_macro("mathrm", <<"{">>)>>
    \o [i \in 1..Len(NoArgumentNames) |-> std_macro(NoArgumentNames[i], <<>>)]
    \o <<std_macro("text", <<"{">>),
         std_macro("textbf", <<"{">>),
         std_macro("textit", <<"{">>),
         std_macro("boxed", <<"{">>)>>
    \o [i \in 1..Len(SymbolSpecNames) |-> std_macro(SymbolSpecNames[i], <<>>)]

\* LatexContextDb.add_context_category: the category holds the specs given
\* and goes in front of the others when prepend is set
add_context_category(db, category, prepend, macros) ==
    IF prepend THEN <<[category |-> category, macros |-> macros]>> \o db
    ELSE db \o <<[category |-> category, macros |-> macros]>>

\* the names a category has specs for
names_of(cat) == {cat.macros[i].macroname : i \in 1..Len(cat.macros)}

\* LatexContextDb.get_macro_spec: the spec of the first category that has
\* the name, the last one given for the name when the category was given
\* several; a name no category has is a macro without arguments
get_macro_spec(db, name) ==
    IF \E k \in 1..Len(db) : name \in names_of(db[k])
    THEN LET k == CHOOSE c \in 1..Len(db) :
                      /\ name \in names_of(db[c])
                      /\ \A b \in 1..(c - 1) : name \notin names_of(db[b])
             specs == db[k].macros
             i == CHOOSE a \in 1..Len(specs) :
                      /\ specs[a].macroname = name
                      /\ \A b \in (a + 1)..Len(specs) : specs[b].macroname # name
         IN  specs[i]
    ELSE std_macro(name, <<>>)

\* CustomLatexNodes2Text.__init__ on the context get_default_latex_context_db
\* returns: custom-parsing, then custom-variations, each prepended
MutInitAppends(default_db) ==
    add_context_category(
        add_context_category(default_db, "custom-parsing", FALSE, get_custom_macro_specs),
        "custom-variations", FALSE, <<>>)

init_latex_context(default_db) ==
    add_context_category(
        add_context_category(default_db, "custom-parsing", TRUE, get_custom_macro_specs),
        "custom-variations", TRUE, <<>>)

\* default contexts of the parsing library: none of its macros, or a few
\* whose signatures differ from the custom ones
DefaultContexts ==
    {add_context_category(<<>>, "latex-base", FALSE, m) :
        m \in {<<>>,
               <<std_macro("mathbb", <<"{">>), std_macro("sqrt", <<"{">>)>>,
               <<std_macro("sqrt", <<"[", "{">>), std_macro("foo", <<"{">>)>>}}

(***************************************************************************)
(* The parser of the parsing library, on a source text in which a control  *)
(* sequence is one element.  Positions count from 0, as pos and pos_end of *)
(* the nodes do.  A structural error is LatexWalkerNodesParseError.        *)
(***************************************************************************)
\* the control sequences of the source texts of the model
MacroNameOf ==
    ("\\sqrt" :> "sqrt" @@ "\\mathbb" :> "mathbb" @@ "\\foo" :> "foo")

\* characters that end a run of ordinary characters
SpecialChars == {"{", "}", "%"} \cup DOMAIN MacroNameOf

ParseOk(nodes, pos) == [exc |-> "none", nodes |-> nodes, pos |-> pos]

ParseError(pos) == [exc |-> "LatexWalkerNodesParseError", nodes |-> <<>>, pos |-> pos]

At(s, pos) == s[pos + 1]

AtEnd(s, pos) == pos >= Len(s)

\* the end of the run of ordinary characters that starts at pos
RECURSIVE chars_end(_, _, _)
chars_end(s, pos, stop) ==
    IF AtEnd(s, pos) \/ At(s, pos) \in SpecialChars \/ At(s, pos) = stop THEN pos
    ELSE chars_end(s, pos + 1, stop)

RECURSIVE line_end(_, _)
line_end(s, pos) ==
    IF AtEnd(s, pos) \/ At(s, pos) = "\n" THEN pos ELSE line_end(s, pos + 1)

\* the comment that starts with the % at pos and takes the end of its line
read_comment(s, pos) ==
    LET e    == line_end(s, pos + 1)
        post == IF AtEnd(s, e) THEN <<>> ELSE <<"\n">>
    IN  [kind |-> "comment", comment |-> SubSeq(s, pos + 2, e),
         comment_post_space |-> post, pos |-> pos, pos_end |-> e + Len(post)]

\* white space and comments in front of an argument: where they end, and
\* the comment nodes met
RECURSIVE skip_space_and_comments(_, _)
skip_space_and_comments(s, pos) ==
    IF AtEnd(s, pos) THEN [pos |-> pos, nodes |-> <<>>]
    ELSE IF At(s, pos) \in Whitespace THEN skip_space_and_comments(s, pos + 1)
    ELSE IF At(s, pos) = "%"
    THEN LET c == read_comment(s, pos)
             r == skip_space_and_comments(s, c.pos_end)
         IN  [pos |-> r.pos, nodes |-> <<c>> \o r.nodes]
    ELSE [pos |-> pos, nodes |-> <<>>]

(***************************************************************************)
(* The parser keeps a stack of the constructs it is inside of: the whole   *)
(* text ("top"), a group up to its closing delimiter ("group"), or a macro *)
(* whose arguments it is reading ("args").  A frame holds where its        *)
(* construct starts, the nodes read for it so far and, in x, the closing   *)
(* delimiter of the group ("EOF" for the whole text) or the rest of the    *)
(* macro's signature.                                                      *)
(***************************************************************************)
Frame(kind, start, x, name) ==
    [kind |-> kind, start |-> start, x |-> x, name |-> name,
     nodes |-> <<>>, skipped |-> <<>>]

Top(stack) == stack[Len(stack)]

\* the node is added to the nodes of the innermost frame
Add(stack, node) == [stack EXCEPT ![Len(stack)].nodes = @ \o <<node>>]

\* the group of the innermost frame, closed by the delimiter at pos
MutGroupEndsOnBrace(f, s, pos) ==
    [kind |-> "group", nodelist |-> f.nodes,
     delimiters |-> <<At(s, f.start), f.x>>, pos |-> f.start, pos_end |-> pos]

group_node(f, s, pos) ==
    [kind |-> "group", nodelist |-> f.nodes,
     delimiters |-> <<At(s, f.start), f.x>>, pos |-> f.start, pos_end |-> pos + 1]

\* the macro of the innermost frame, its arguments read up to pos
macro_node(f, pos) ==
    [kind |-> "macro", macroname |-> f.name, argnlist |-> f.nodes,
     pos |-> f.start, pos_end |-> pos]

Failed(st, pos) == [st EXCEPT !.status = "error", !.pos = pos]

\* LatexStandardArgumentParser: the next argument of the signature of the
\* innermost frame.  A mandatory argument is the brace group or the single
\* token that follows the white space and comments; an optional argument
\* is the bracket group, or None with nothing read when no bracket follows.
parse_argument(st, s) ==
    LET f  == Top(st.stack)
        sk == skip_space_and_comments(s, st.pos)
        p  == sk.pos
        taken == [st.stack EXCEPT ![Len(st.stack)].x = Tail(@)]
        read  == [taken EXCEPT ![Len(taken)].skipped = @ \o sk.nodes]
    IN  IF Head(f.x) = "["
        THEN IF ~AtEnd(s, p) /\ At(s, p) = "["
             THEN [st EXCEPT !.stack = read \o <<Frame("group", p, "]", "")>>,
                             !.pos = p + 1]
             ELSE [st EXCEPT !.stack = Add(taken, None)]
        ELSE IF AtEnd(s, p) \/ At(s, p) = "}" THEN Failed(st, p)
        ELSE IF At(s, p) = "{"
        THEN [st EXCEPT !.stack = read \o <<Frame("group", p, "}", "")>>,
                        !.pos = p + 1]
        ELSE IF At(s, p) \in DOMAIN MacroNameOf
        THEN [st EXCEPT !.stack = Add(read, macro_node(
                                      Frame("args", p, <<>>, MacroNameOf[At(s, p)]),
                                      p + 1)),
                        !.pos = p + 1]
        ELSE [st EXCEPT !.stack = Add(read, [kind |-> "chars", chars |-> <<At(s, p)>>,
                                             pos |-> p, pos_end |-> p + 1]),
                        !.pos = p + 1]

\* LatexGeneralNodesParser: the next node of the group or text of the
\* innermost frame.  A closing brace nothing opened and a group nothing
\* closes are errors.
parse_node(st, s, db) ==
    LET f   == Top(st.stack)
        pos == st.pos
        out_of(stack) == SubSeq(stack, 1, Len(stack) - 1)
    IN  IF AtEnd(s, pos)
        THEN IF f.kind = "top" THEN [st EXCEPT !.status = "done"] ELSE Failed(st, pos)
        ELSE IF At(s, pos) = f.x
        THEN [st EXCEPT !.stack = Add(out_of(st.stack), group_node(f, s, pos)),
                        !.pos = pos + 1]
        ELSE IF At(s, pos) = "}" THEN Failed(st, pos)
        ELSE IF At(s, pos) = "{"
        THEN [st EXCEPT !.stack = @ \o <<Frame("group", pos, "}", "")>>,
                        !.pos = pos + 1]
        ELSE IF At(s, pos) = "%"
        THEN LET c == read_comment(s, pos)
             IN  [st EXCEPT !.stack = Add(@, c), !.pos = c.pos_end]
        ELSE IF At(s, pos) \in DOMAIN MacroNameOf
        THEN LET name == MacroNameOf[At(s, pos)]
             IN  [st EXCEPT !.stack = @ \o <<Frame("args", pos,
                                  get_macro_spec(db, name).arguments_spec_list, name)>>,
                            !.pos = pos + 1]
        ELSE LET e == chars_end(s, pos, f.x)
             IN  [st EXCEPT !.stack = Add(@, [kind |-> "chars",
                                                 chars |-> SubSeq(s, pos + 1, e),
                                                 pos |-> pos, pos_end |-> e]),
                            !.pos = e]

\* one step of the parser: an argument of the macro of the innermost
\* frame, the macro itself once its arguments are read, or a node
parse_step(st, s, db) ==
    LET f == Top(st.stack)
    IN  IF f.kind # "args" THEN parse_node(st, s, db)
        ELSE IF f.x # <<>> THEN parse_argument(st, s)
        ELSE IF Len(st.stack) = 1 THEN [st EXCEPT !.status = "done"]
        ELSE [st EXCEPT !.stack = Add(SubSeq(@, 1, Len(@) - 1),
                                         macro_node(f, st.pos))]

RECURSIVE parse_run(_, _, _)
parse_run(st, s, db) ==
    IF st.status # "running" THEN st ELSE parse_run(parse_step(st, s, db), s, db)

\* the parser started at the beginning of s inside the frame f
parse_in(f, s, db) ==
    parse_run([status |-> "running", pos |-> 0, stack |-> <<f>>], s, db)

\* lw.parse_content(LatexGeneralNodesParser()) on the whole text
parse_content(latex, db) ==
    LET st == parse_in(Frame("top", 0, "EOF", ""), latex, db)
    IN  IF st.status = "error" THEN ParseError(st.pos)
        ELSE ParseOk(st.stack[1].nodes, st.pos)

\* lw.parse_content(LatexStandardArgumentParser(arg_spec,
\* return_full_node_list)): the argument node, after the nodes skipped in
\* front of it when the full list is asked for
standard_argument_parser(arg_spec, return_full_node_list, s, db) ==
    LET st == parse_in(Frame("args", 0, <<arg_spec>>, ""), s, db)
        f  == st.stack[1]
    IN  IF st.status = "error" THEN ParseError(st.pos)
        ELSE ParseOk(IF return_full_node_list THEN f.skipped \o f.nodes ELSE f.nodes,
                     st.pos)

\* latex_to_text and custom_latex_to_text on a source text: the text is
\* parsed under the converter's context and the node list rendered; nothing
\* catches what the parser raises
MutConvertCatches(latex, db, t) ==
    LET p == parse_content(latex, db)
    IN  IF p.exc # "none" THEN Ret(<<>>, t)
        ELSE latex_to_text(p.nodes, t)

convert(latex, db, t) ==
    LET p == parse_content(latex, db)
    IN  IF p.exc # "none" THEN Raise(p.exc, t)
        ELSE latex_to_text(p.nodes, t)

(***************************************************************************)
(* The documents of the model: the node lists a call is made on.           *)
(***************************************************************************)
\* texts of at most one character
Short == StrsUpTo(Chars, 1)

FracNames == {"frac", "dfrac", "tfrac"}

\* names no branch of macro_node_to_text handles
UnknownNames == {"foo", "bar"}

\* indices whose reciprocal repr writes with an exponent
LargeIndices ==
    {<<"1", "0", "0", "0", "0", "0">>,
     <<"1", "0", "0", "0", "0", "0", "0">>,
     <<"4", "0", "0", "0", "0", "0", "0">>,
     <<"8", "0", "0", "0", "0", "0", "0">>}

\* \sqrt{c}, \sqrt[i]{c}, and the node whose optional argument is None
SqrtNodes ==
    {MacroNode("sqrt", <<>>)}
    \cup {MacroNode("sqrt", <<Arg(c)>>) : c \in Texts}
    \cup {MacroNode("sqrt", <<None, Arg(c)>>) : c \in Texts}
    \cup {MacroNode("sqrt", <<Arg(<<"2">>), Arg(c)>>) : c \in Texts}
    \cup {MacroNode("sqrt", <<Arg(i), Arg(c)>>) : i \in IndexTexts, c \in Short}
    \cup {MacroNode("sqrt", <<Arg(i), Arg(<<"x">>)>>) : i \in LargeIndices}

\* pairs of argument texts, one of them short
ArgPairs == (Texts \X Short) \cup (Short \X Texts)

FracNodes ==
    {MacroNode(f, <<>>) : f \in FracNames}
    \cup {MacroNode(f, <<Arg(a)>>) : f \in FracNames, a \in Short}
    \cup {MacroNode("frac", <<Arg(p[1]), Arg(p[2])>>) : p \in ArgPairs}
    \cup {MacroNode(f, <<Arg(a), Arg(b)>>) : f \in FracNames, a \in Short, b \in Short}

BinomNodes ==
    {MacroNode("binom", <<>>)}
    \cup {MacroNode("binom", <<Arg(a)>>) : a \in Short}
    \cup {MacroNode("binom", <<Arg(p[1]), Arg(p[2])>>) : p \in ArgPairs}

\* boxed nested k levels deep around the text t
RECURSIVE Boxed(_, _)
Boxed(k, t) ==
    IF k = 1 THEN MacroNode("boxed", <<Arg(t)>>)
    ELSE MacroNode("boxed", <<GroupNode(<<Boxed(k - 1, t)>>)>>)

BoxedNodes ==
    {MacroNode("boxed", <<>>)}
    \cup {Boxed(k, t) : k \in 1..MaxDepth, t \in Texts}

\* an argument slot of a construct the renderer does not know
AnyArgs == {None} \cup {Arg(s) : s \in Short}

UnknownNodes ==
    {MacroNode(f, args) : f \in UnknownNames,
                          args \in UNION {[1..k -> AnyArgs] : k \in 0..2}}

\* documents of chars nodes alone
TextDocs ==
    {<<CharsNode(s)>> : s \in Texts \ {<<>>}}
    \cup UNION {[1..k -> {CharsNode(s) : s \in Short \ {<<>>}}] : k \in 0..MaxNodes}

\* the nodes of the documents of several siblings: chars nodes, constructs
\* over chars arguments, and a fraction whose numerator has two children
Siblings ==
    {CharsNode(<<"x">>),
     CharsNode(<<" ">>),
     MacroNode("frac", <<Arg(<<"x">>), Arg(<<"2">>)>>),
     MacroNode("frac", <<GroupNode(<<CharsNode(<<"x">>),
                                     MacroNode("boxed", <<Arg(<<"2">>)>>)>>),
                         Arg(<<"+">>)>>),
     MacroNode("binom", <<Arg(<<"x">>), Arg(<<"2">>)>>),
     MacroNode("boxed", <<Arg(<<"x">>)>>),
     MacroNode("sqrt", <<None, Arg(<<"x">>)>>),
     MacroNode("sqrt", <<Arg(<<"3">>), Arg(<<"x">>)>>)}

IsRoot(node) == node.kind = "macro" /\ node.macroname = "sqrt"

\* documents of one to MaxNodes siblings, at most one of them a root: the
\* generator holds the outcomes of one handler run
MixedDocs ==
    {d \in UNION {[1..k -> Siblings] : k \in 1..MaxNodes} :
        Cardinality({i \in 1..Len(d) : IsRoot(d[i])}) <= 1}

(***************************************************************************)
(* The state: pc is "idle" between calls and "done" when a call has        *)
(* returned or raised; doc is the document of the call, out its result;    *)
(* tape is the state of the process-global generator of the random module. *)
(* src is the state of the random source the caller of the call holds, and *)
(* prev the call before this one (used by SpecSeed alone).  call is the    *)
(* source text of a call made on a text, the generator state it started    *)
(* from and where the parser stopped; registry is the latex context of the *)
(* converter.  The calls of Spec and SpecSeed are made on node lists and   *)
(* read neither.  threads holds the calls of SpecThreads, one per thread   *)
(* of the process; the other specifications have no threads.               *)
(***************************************************************************)
NoCall == [doc |-> <<>>, src |-> <<>>, text |-> <<>>, exc |-> "none"]

NoOut == [text |-> <<>>, exc |-> "none"]

NoSource ==
    [latex |-> <<>>, tape |-> <<>>, pos |-> 0, arg_spec |-> "", full |-> FALSE]

\* the generator states a call starts from
Tapes == [1..MaxDrawsPerHandler -> Cells]

Init ==
    /\ pc = "idle"
    /\ doc = <<>>
    /\ out = NoOut
    /\ tape \in Tapes
    /\ src = <<>>
    /\ prev = NoCall
    /\ call = NoSource
    /\ registry = <<>>
    /\ threads = <<>>

\* a call of custom_latex_to_text on the document d, made when no call is
\* under way and the generator holds the outcomes of the random calls one
\* handler run can make
Ready == pc = "idle" /\ Len(tape) = MaxDrawsPerHandler

Call(d) ==
    /\ LET r == custom_latex_to_text(d, tape)
       IN  /\ out' = [text |-> r.text, exc |-> r.exc]
           /\ tape' = r.tape
    /\ doc' = d
    /\ pc' = "done"

RenderSqrt ==
    /\ Ready
    /\ \E n \in SqrtNodes : Call(<<n>>)
    /\ UNCHANGED <<src, prev, call, registry, threads>>

RenderFrac ==
    /\ Ready
    /\ \E n \in FracNodes : Call(<<n>>)
    /\ UNCHANGED <<src, prev, call, registry, threads>>

RenderBinom ==
    /\ Ready
    /\ \E n \in BinomNodes : Call(<<n>>)
    /\ UNCHANGED <<src, prev, call, registry, threads>>

RenderBoxed ==
    /\ Ready
    /\ \E n \in BoxedNodes : Call(<<n>>)
    /\ UNCHANGED <<src, prev, call, registry, threads>>

RenderUnknown ==
    /\ Ready
    /\ \E n \in UnknownNodes : Call(<<n>>)
    /\ UNCHANGED <<src, prev, call, registry, threads>>

RenderText ==
    /\ Ready
    /\ \E d \in TextDocs : Call(d)
    /\ UNCHANGED <<src, prev, call, registry, threads>>

RenderMixed ==
    /\ Ready
    /\ \E d \in MixedDocs : Call(d)
    /\ UNCHANGED <<src, prev, call, registry, threads>>

\* the caller takes the result
Return ==
    /\ pc = "done"
    /\ pc' = "idle"
    /\ doc' = <<>>
    /\ out' = NoOut
    /\ UNCHANGED <<tape, src, prev, call, registry, threads>>

\* other code of the process draws from the generator or seeds it
Advance ==
    /\ pc = "idle"
    /\ tape' \in Tapes
    /\ tape' # tape
    /\ UNCHANGED <<pc, doc, out, src, prev, call, registry, threads>>

Next ==
    \/ RenderSqrt
    \/ RenderFrac
    \/ RenderBinom
    \/ RenderBoxed
    \/ RenderUnknown
    \/ RenderText
    \/ RenderMixed
    \/ Return
    \/ Advance

Spec == Init /\ [][Next]_vars

(***************************************************************************)
(* Reading a finished call.                                                *)
(***************************************************************************)
\* the call that has ended was made on one macro node named in names
CallOf(names) ==
    /\ pc = "done"
    /\ Len(doc) = 1
    /\ doc[1].kind = "macro"
    /\ doc[1].macroname \in names

NArgs == Len(doc[1].argnlist)

\* the text of the i-th argument {s} of that node
ArgText(i) ==
    LET nl == doc[1].argnlist[i].nodelist
    IN  IF nl = <<>> THEN <<>> ELSE nl[1].chars

HasOperator(text) == \E ch \in {"+", "-", "*", "/", "^", " "} : Contains(text, ch)

Parens(text) == <<"(">> \o text \o <<")">>

(***************************************************************************)
(* C1: the fraction handler wraps in parentheses only the side whose       *)
(* trimmed text holds one of + - * / ^ or a space, and joins the sides     *)
(* with "/".  The code wraps both sides as soon as one of them needs it.   *)
(***************************************************************************)
C1_Side(text) == IF HasOperator(strip(text)) THEN Parens(text) ELSE text

C1_FracWrapsOnlyComplexSide ==
    (CallOf(FracNames) /\ NArgs = 2)
        => /\ out.exc = "none"
           /\ out.text = C1_Side(ArgText(1)) \o <<"/">> \o C1_Side(ArgText(2))

SeedSources == {[i \in 1..MaxDrawsPerHandler |-> c] : c \in Cells}

SeedDocs ==
    {<<MacroNode("sqrt", <<None, Arg(<<"x">>)>>)>>,
     <<MacroNode("sqrt", <<Arg(<<"2">>), Arg(<<"x">>)>>)>>,
     <<MacroNode("sqrt", <<Arg(<<"n">>), Arg(<<"x">>)>>)>>,
     <<MacroNode("binom", <<Arg(<<"x">>), Arg(<<"2">>)>>)>>}

SeededRender ==
    /\ Ready
    /\ \E d \in SeedDocs : Call(d)
    /\ src' \in SeedSources
    /\ UNCHANGED <<prev, call, registry, threads>>

\* the caller takes the result; the call is kept as the earlier call, or
\* the one kept stays
ReturnRecorded ==
    /\ pc = "done"
    /\ pc' = "idle"
    /\ prev' \in {prev, [doc |-> doc, src |-> src, text |-> out.text, exc |-> out.exc]}
    /\ doc' = <<>>
    /\ out' = NoOut
    /\ src' = <<>>
    /\ UNCHANGED <<tape, call, registry, threads>>

NextSeed ==
    \/ SeededRender
    \/ ReturnRecorded
    \/ Advance

SpecSeed == Init /\ [][NextSeed]_vars

(***************************************************************************)
(* C3: two render calls on the same tree that start from the same state of *)
(* the caller-supplied random source produce identical output, whatever    *)
(* render calls or random draws happened in between.                       *)
(***************************************************************************)
C3_SameSourceSameOutput ==
    (pc = "done" /\ prev # NoCall /\ prev.doc = doc /\ prev.src = src)
        => (prev.text = out.text /\ prev.exc = out.exc)

(***************************************************************************)
(* C4: a root of two over the radicand text x (no index, an absent         *)
(* optional index, or the index text 2) renders, for every combination of  *)
(* random outcomes, as one of sqrt(x), x^0.5, x**0.5, x^(1/2), x**(1/2),   *)
(* and each of the five is the output for some outcome.                    *)
(***************************************************************************)
C4_RootsOfTwo ==
    {MacroNode("sqrt", <<Arg(<<"x">>)>>),
     MacroNode("sqrt", <<None, Arg(<<"x">>)>>),
     MacroNode("sqrt", <<Arg(<<"2">>), Arg(<<"x">>)>>)}

C4_Five ==
    {<<"s", "q", "r", "t", "(", "x", ")">>,
     <<"x", "^", "0", ".", "5">>,
     <<"x", "*", "*", "0", ".", "5">>,
     <<"x", "^", "(", "1", "/", "2", ")">>,
     <<"x", "*", "*", "(", "1", "/", "2", ")">>}

C4_RootOfTwoIsOneOfFive ==
    (CallOf({"sqrt"}) /\ doc[1] \in C4_RootsOfTwo)
        => /\ out.exc = "none"
           /\ out.text \in C4_Five
           /\ {custom_latex_to_text(doc, t).text : t \in Tapes} = C4_Five

C4_Witness ==
    /\ CallOf({"sqrt"})
    /\ doc[1] = MacroNode("sqrt", <<Arg(<<"2">>), Arg(<<"x">>)>>)
    /\ out.text = <<"x", "*", "*", "(", "1", "/", "2", ")">>

IsPrefix(p, text) == Len(p) <= Len(text) /\ SubSeq(text, 1, Len(p)) = p

\* the radicand text C of a root call, written (C) when it holds an operator
RadicandText == ArgText(NArgs)

Radicand == IF HasOperator(RadicandText) THEN Parens(RadicandText) ELSE RadicandText

(***************************************************************************)
(* C5: when the root handler produces an exponent form, the radicand C is  *)
(* written (C) if and only if C holds one of + - * / ^ or a space; and the *)
(* fraction handler parenthesizes by the same predicate, spaces at the     *)
(* ends of the text treated alike.  The fraction handler trims the text    *)
(* before it looks for the characters and the root handler does not.       *)
(***************************************************************************)
C5_SamePredicateInRootAndFraction ==
    /\ (CallOf({"sqrt"}) /\ NArgs \in {1, 2}
            /\ out.text # <<"s", "q", "r", "t", "(">> \o RadicandText \o <<")">>)
         => \/ IsPrefix(Radicand \o <<"^">>, out.text)
            \/ IsPrefix(Radicand \o <<"*", "*">>, out.text)
    /\ (CallOf(FracNames) /\ NArgs = 2)
         => (Head(out.text) = "(" <=> (HasOperator(ArgText(1)) \/ HasOperator(ArgText(2))))

(***************************************************************************)
(* C6: a root whose index text does not parse as a number never raises and *)
(* renders as C^(1/n) or C**(1/n), n the index text as it is and C in      *)
(* parentheses when it holds an operator: never sqrt(C), never a decimal   *)
(* exponent.                                                               *)
(***************************************************************************)
IndexGiven == CallOf({"sqrt"}) /\ NArgs = 2 /\ doc[1].argnlist[1] # None

C6_NonNumericIndexGivesLiteralFraction ==
    (IndexGiven /\ float(ArgText(1)).exc # "none")
        => /\ out.exc = "none"
           /\ out.text \in
                 {Radicand \o <<"^", "(", "1", "/">> \o ArgText(1) \o <<")">>,
                  Radicand \o <<"*", "*", "(", "1", "/">> \o ArgText(1) \o <<")">>}

C6_Witness ==
    /\ IndexGiven
    /\ ArgText(1) = <<"n">>
    /\ RadicandText = <<"+">>
    /\ out = [text |-> <<"(", "+", ")", "*", "*", "(", "1", "/", "n", ")">>,
              exc |-> "none"]

(***************************************************************************)
(* C7: binom with the arguments n and k renders as exactly C(n,k), n       *)
(* before k, whatever the random outcomes: the handler draws nothing.      *)
(***************************************************************************)
C7_BinomIsExact ==
    (CallOf({"binom"}) /\ NArgs = 2)
        => /\ out = [text |-> <<"C", "(">> \o ArgText(1) \o <<",">> \o ArgText(2) \o <<")">>,
                     exc |-> "none"]
           /\ Len(tape) = MaxDrawsPerHandler

C7_Witness ==
    /\ CallOf({"binom"})
    /\ NArgs = 2
    /\ ArgText(1) = <<"x", "+">>
    /\ ArgText(2) = <<"2">>
    /\ out.text = <<"C", "(", "x", "+", ",", "2", ")">>
    /\ tape = <<3, 0, 2>>

(***************************************************************************)
(* C8: a boxed construct nested k levels deep around the text t renders as *)
(* k opening brackets, t, k closing brackets.                              *)
(***************************************************************************)
\* the depth of a nest of boxed constructs and the text at its centre
RECURSIVE C8_Unbox(_)
C8_Unbox(node) ==
    LET inner == node.argnlist[1].nodelist
    IN  IF inner = <<>> THEN [depth |-> 1, text |-> <<>>]
        ELSE IF inner[1].kind = "chars" THEN [depth |-> 1, text |-> inner[1].chars]
        ELSE LET r == C8_Unbox(inner[1])
             IN  [depth |-> r.depth + 1, text |-> r.text]

C8_Brackets(ch, k) == [i \in 1..k |-> ch]

C8_NestedBoxedNestsBrackets ==
    (CallOf({"boxed"}) /\ NArgs = 1)
        => LET b == C8_Unbox(doc[1])
           IN  /\ out.exc = "none"
               /\ out.text = C8_Brackets("[", b.depth) \o b.text \o C8_Brackets("]", b.depth)

C8_Witness ==
    /\ CallOf({"boxed"})
    /\ doc[1] = Boxed(2, <<"2">>)
    /\ out.text = <<"[", "[", "2", "]", "]">>

(***************************************************************************)
(* C9: rendering a tree of Text nodes alone returns the concatenation of   *)
(* their contents, no character added, removed or replaced.                *)
(***************************************************************************)
RECURSIVE C9_Concat(_)
C9_Concat(nodelist) ==
    IF nodelist = <<>> THEN <<>>
    ELSE Head(nodelist).chars \o C9_Concat(Tail(nodelist))

RECURSIVE C10_Texts(_), C10_ListTexts(_)

C10_Wrap(S) == S \cup {Parens(a) : a \in S}

C10_Exponents(node) ==
    IF Len(node.argnlist) = 2 /\ node.argnlist[1] # None
    THEN {<<"(", "1", "/">> \o i \o <<")">> : i \in C10_Texts(node.argnlist[1])}
         \cup {StrInverse(float(i).value) :
                  i \in {j \in C10_Texts(node.argnlist[1]) :
                            float(j).exc = "none" /\ float(j).value # 0}}
    ELSE {<<"0", ".", "5">>, <<"(", "1", "/", "2", ")">>}

C10_Texts(node) ==
    CASE node.kind = "chars" -> {node.chars}
      [] node.kind = "group" -> C10_ListTexts(node.nodelist)
      [] node.kind = "none" -> {<<>>}
      [] node.kind = "macro" ->
           LET n == Len(node.argnlist)
               A(i) == C10_Texts(node.argnlist[i])
           IN  CASE node.macroname \in FracNames ->
                      IF n < 2 THEN {<<>>}
                      ELSE {a \o <<"/">> \o b : a \in C10_Wrap(A(1)), b \in C10_Wrap(A(2))}
                 [] node.macroname = "binom" ->
                      IF n < 2 THEN {<<>>}
                      ELSE {<<"C", "(">> \o a \o <<",">> \o b \o <<")">> :
                              a \in A(1), b \in A(2)}
                 [] node.macroname = "boxed" ->
                      IF n < 1 THEN {<<>>}
                      ELSE {<<"[">> \o a \o <<"]">> : a \in A(1)}
                 [] node.macroname = "sqrt" ->
                      IF n < 1 THEN {<<>>}
                      ELSE {<<"s", "q", "r", "t", "(">> \o c \o <<")">> : c \in A(n)}
                           \cup {c \o op \o e : c \in C10_Wrap(A(n)),
                                                op \in {<<"^">>, <<"*", "*">>},
                                                e \in C10_Exponents(node)}
                 [] OTHER -> {Spell[node.macroname]}

C10_ListTexts(nodelist) ==
    IF nodelist = <<>> THEN {<<>>}
    ELSE {a \o b : a \in C10_Texts(Head(nodelist)), b \in C10_ListTexts(Tail(nodelist))}

C10_OutputKeepsDocumentOrder ==
    pc = "done" => (out.exc = "none" /\ out.text \in C10_ListTexts(doc))

C10_Witness ==
    /\ pc = "done"
    /\ doc = <<MacroNode("frac", <<GroupNode(<<CharsNode(<<"x">>),
                                                MacroNode("boxed", <<Arg(<<"2">>)>>)>>),
                                    Arg(<<"+">>)>>),
               MacroNode("binom", <<Arg(<<"x">>), Arg(<<"2">>)>>)>>
    /\ out.text = <<"(", "x", "[", "2", "]", ")", "/", "(", "+", ")",
                    "C", "(", "x", ",", "2", ")">>

(***************************************************************************)
(* SpecParse: calls of custom_latex_to_text on source texts.  The          *)
(* converter holds the context built over one of the default contexts; a   *)
(* call parses the text under it and renders the tree.  prev keeps an      *)
(* earlier call on RecordedSource: its tree, the generator state it        *)
(* started from (in src) and its result.                                   *)
(***************************************************************************)
\* longest source text
MaxSrcLen == 4

SourceChars == {"{", "}", "[", "]", "x", "\\sqrt"}

\* source texts: at most one root, so that the generator holds the
\* outcomes of the call, and three texts of constructs of the default
\* contexts
Sources ==
    {s \in StrsUpTo(SourceChars, MaxSrcLen) :
        Cardinality({i \in 1..Len(s) : s[i] = "\\sqrt"}) <= 1}
    \cup {<<"\\mathbb", "{", "x", "}">>, <<"\\mathbb", "x">>, <<"\\foo", "{", "x", "}">>}

RecordedSource == <<"\\sqrt", "{", "x", "}">>

\* generator states of the calls: every call it answers gives one outcome
ParseTapes == {[i \in 1..MaxDrawsPerHandler |-> c] : c \in Cells}

InitParse ==
    /\ pc = "idle"
    /\ doc = <<>>
    /\ out = NoOut
    /\ tape \in ParseTapes
    /\ src = <<>>
    /\ prev = NoCall
    /\ call = NoSource
    /\ registry \in {init_latex_context(d) : d \in DefaultContexts}
    /\ threads = <<>>

\* a call of custom_latex_to_text on a source text.  The call reads the
\* converter's context and writes nothing of the converter.
MutConvertRebuilds ==
    /\ Ready
    /\ \E s \in Sources :
         LET p == parse_content(s, registry)
             r == convert(s, registry, tape)
         IN  /\ doc' = p.nodes
             /\ out' = [text |-> r.text, exc |-> r.exc]
             /\ tape' = r.tape
             /\ call' = [NoSource EXCEPT !.latex = s, !.tape = tape, !.pos = p.pos]
    /\ pc' = "done"
    /\ registry' = init_latex_context(<<>>)
    /\ UNCHANGED <<src, prev, threads>>

Convert ==
    /\ Ready
    /\ \E s \in Sources :
         LET p == parse_content(s, registry)
             r == convert(s, registry, tape)
         IN  /\ doc' = p.nodes
             /\ out' = [text |-> r.text, exc |-> r.exc]
             /\ tape' = r.tape
             /\ call' = [NoSource EXCEPT !.latex = s, !.tape = tape, !.pos = p.pos]
    /\ pc' = "done"
    /\ UNCHANGED <<src, prev, registry, threads>>

\* the caller takes the result; a call on RecordedSource is kept as the
\* earlier call, or the one kept stays
ReturnConverted ==
    /\ pc = "done"
    /\ pc' = "idle"
    /\ prev' \in {prev} \cup
                 (IF call.latex = RecordedSource
                  THEN {[doc |-> doc, src |-> call.tape,
                         text |-> out.text, exc |-> out.exc]}
                  ELSE {})
    /\ doc' = <<>>
    /\ out' = NoOut
    /\ call' = NoSource
    /\ UNCHANGED <<tape, src, registry, threads>>

Reseed ==
    /\ pc = "idle"
    /\ tape' \in ParseTapes
    /\ tape' # tape
    /\ UNCHANGED <<pc, doc, out, src, prev, call, registry, threads>>

NextParse ==
    \/ Convert
    \/ ReturnConverted
    \/ Reseed

SpecParse == InitParse /\ [][NextParse]_vars

(***************************************************************************)
(* C11: a structural parse error reaches the caller as the parser raised   *)
(* it and with no partial output.  A text whose braces do not match makes  *)
(* the call fail with the parser's error; a call that fails fails with     *)
(* that error, returns no text, has built no tree and has drawn nothing.   *)
(***************************************************************************)
RECURSIVE C11_Open(_, _)
\* the braces open after the first k elements of s, -1 once a closing brace
\* had nothing to close
C11_Open(s, k) ==
    IF k = 0 THEN 0
    ELSE LET before == C11_Open(s, k - 1)
         IN  IF before < 0 THEN -1
             ELSE IF s[k] = "{" THEN before + 1
             ELSE IF s[k] = "}" THEN before - 1
             ELSE before

C11_Unbalanced(s) == C11_Open(s, Len(s)) # 0

C11_ParseErrorPropagates ==
    (pc = "done")
        => /\ C11_Unbalanced(call.latex) => out.exc = "LatexWalkerNodesParseError"
           /\ out.exc # "none"
                => /\ out.exc = "LatexWalkerNodesParseError"
                   /\ out.text = <<>>
                   /\ doc = <<>>
                   /\ tape = call.tape

C11_Witness ==
    /\ pc = "done"
    /\ call.latex = <<"\\sqrt", "x", "{">>
    /\ out = [text |-> <<>>, exc |-> "LatexWalkerNodesParseError"]

(***************************************************************************)
(* SpecDeep: calls on deeply nested trees.  The renderer recurses through  *)
(* nodelist_to_text, macro_node_to_text and the handlers with no count of  *)
(* its own depth; what ends a recursion that is too deep is the            *)
(* interpreter, which raises RecursionError when the call stack holds more *)
(* frames than its limit.  The caller's own frames count against the same  *)
(* limit.                                                                  *)
(***************************************************************************)
\* frames the interpreter allows on the call stack
StackFrames == 14
\* deepest nesting of the trees
MaxNest == 4
\* most frames the caller has on the stack when it calls
MaxCallerFrames == 3

\* the frames a render puts on the stack: one for nodelist_to_text, one
\* for the node, and for a macro node macro_node_to_text and its handler
RECURSIVE frames_of_nodelist(_)
frames_of_node(node) ==
    CASE node.kind = "group" -> 1 + frames_of_nodelist(node.nodelist)
      [] node.kind = "macro" ->
           LET inner == {frames_of_nodelist(<<node.argnlist[i]>>) :
                            i \in 1..Len(node.argnlist)}
           IN  3 + (IF inner = {} THEN 0
                    ELSE CHOOSE f \in inner : \A g \in inner : g <= f)
      [] OTHER -> 1

frames_of_nodelist(nodelist) ==
    LET inner == {frames_of_node(nodelist[i]) : i \in 1..Len(nodelist)}
    IN  1 + (IF inner = {} THEN 0
             ELSE CHOOSE f \in inner : \A g \in inner : g <= f)

\* brace groups nested k levels deep around the text t
RECURSIVE Braced(_, _)
Braced(k, t) ==
    IF k = 1 THEN Arg(t) ELSE GroupNode(<<Braced(k - 1, t)>>)

\* nests of boxed constructs and of brace groups: no handler of theirs
\* draws from the generator
DeepDocs ==
    {<<Boxed(k, t)>> : k \in 1..MaxNest, t \in Short}
    \cup {<<Braced(k, t)>> : k \in 1..MaxNest, t \in Short}

\* a call made with base frames of the caller on the stack
RenderDeep ==
    /\ Ready
    /\ \E d \in DeepDocs, base \in 0..MaxCallerFrames :
         IF base + frames_of_nodelist(d) > StackFrames
         THEN /\ out' = [text |-> <<>>, exc |-> "RecursionError"]
              /\ tape' = tape
              /\ doc' = d
              /\ pc' = "done"
         ELSE Call(d)
    /\ UNCHANGED <<src, prev, call, registry, threads>>

NextDeep ==
    \/ RenderDeep
    \/ Return
    \/ Advance

SpecDeep == Init /\ [][NextDeep]_vars

(***************************************************************************)
(* C12: the renderer counts its own depth and ends the render of a tree    *)
(* nested deeper than its limit with an error of its own, so that no       *)
(* render call ends by exhausting the call stack.  The code has no such    *)
(* count: a deep tree ends with the interpreter's RecursionError, at a     *)
(* depth that depends on the frames of the caller.                         *)
(***************************************************************************)
C12_NoCallExhaustsTheStack ==
    pc = "done" => out.exc # "RecursionError"

(***************************************************************************)
(* C13: an optional argument that is not there reaches the handler as None *)
(* and never as empty text.  The parser gives the root None for its index  *)
(* exactly when no bracket follows the macro; the handler renders the root *)
(* as a square root (sqrt(c), or c to the power 0.5 or (1/2)) for None     *)
(* alone, and an index that is there and renders as empty text as c to the *)
(* power (1/).                                                             *)
(***************************************************************************)
C13_RootCall ==
    /\ pc = "done"
    /\ out.exc = "none"
    /\ Len(doc) = 1
    /\ doc[1].kind = "macro"
    /\ doc[1].macroname = "sqrt"

\* a radicand text with the exponent e, in the four ways of joining them
C13_Powers(c, e) ==
    {p \o op \o e : p \in {c, Parens(c)}, op \in {<<"^">>, <<"*", "*">>}}

C13_AbsentIndexIsNone ==
    C13_RootCall
        => LET argnlist == doc[1].argnlist
               c == nodelist_to_text(<<argnlist[2]>>, <<>>).text
           IN  /\ Len(argnlist) = 2
               /\ (argnlist[1] = None) <=> (call.latex[2] # "[")
               /\ argnlist[1] = None
                    => out.text \in {<<"s", "q", "r", "t", "(">> \o c \o <<")">>}
                                    \cup C13_Powers(c, <<"0", ".", "5">>)
                                    \cup C13_Powers(c, <<"(", "1", "/", "2", ")">>)
               /\ (argnlist[1] # None /\ argnlist[1].nodelist = <<>>)
                    => out.text \in C13_Powers(c, <<"(", "1", "/", ")">>)

C13_Witness ==
    /\ pc = "done"
    /\ call.latex = <<"\\sqrt", "[", "]", "x">>
    /\ doc[1].argnlist[1] # None
    /\ out = [text |-> <<"x", "^", "(", "1", "/", ")">>, exc |-> "none"]

(***************************************************************************)
(* SpecSymbols: calls on the constructs without arguments (the stochastic  *)
(* symbols and the symbols of fixed text) and on mathrm.                   *)
(***************************************************************************)
StochasticNames == {"pi", "infty"} \cup DOMAIN greek_letters

\* one occurrence of a stochastic symbol, the same symbol twice, and pi or
\* infty next to another one
StochasticDocs ==
    {<<MacroNode(n, <<>>)>> : n \in StochasticNames}
    \cup {<<MacroNode(n, <<>>), MacroNode(n, <<>>)>> : n \in StochasticNames}
    \cup {<<MacroNode(a, <<>>), MacroNode(b, <<>>)>> :
            a \in {"pi", "infty"}, b \in {"pi", "infty", "alpha", "Omega"}}

\* the names of the branches of fixed text, the newline macro n aside
FixedNames == SymbolNames \ {"n"}

\* a symbol of fixed text alone, twice, and after a pi that draws before it
SymbolDocs ==
    {<<MacroNode(n, <<>>)>> : n \in FixedNames}
    \cup {<<MacroNode(n, <<>>), MacroNode(n, <<>>)>> : n \in FixedNames}
    \cup {<<MacroNode("pi", <<>>), MacroNode(n, <<>>)>> : n \in FixedNames}

MathrmChars == {"e", "x", " "}

MathrmNodes ==
    {MacroNode("mathrm", <<>>)}
    \cup {MacroNode("mathrm", <<Arg(s)>>) : s \in StrsUpTo(MathrmChars, MaxLen)}

RenderStochastic ==
    /\ Ready
    /\ \E d \in StochasticDocs : Call(d)
    /\ UNCHANGED <<src, prev, call, registry, threads>>

RenderSymbol ==
    /\ Ready
    /\ \E d \in SymbolDocs : Call(d)
    /\ UNCHANGED <<src, prev, call, registry, threads>>

RenderMathrm ==
    /\ Ready
    /\ \E n \in MathrmNodes : Call(<<n>>)
    /\ UNCHANGED <<src, prev, call, registry, threads>>

NextSymbols ==
    \/ RenderStochastic
    \/ RenderSymbol
    \/ RenderMathrm
    \/ Return
    \/ Advance

SpecSymbols == Init /\ [][NextSymbols]_vars

(***************************************************************************)
(* C14: a stochastic symbol gives exactly one of its options at each       *)
(* occurrence (a Greek letter its name or its symbol, pi its name or its   *)
(* symbol, infinity one of its three texts), each occurrence is one draw,  *)
(* and over the outcomes of the generator a document of such symbols takes *)
(* every combination of their options and nothing else.                    *)
(***************************************************************************)
C14_Options(name) ==
    IF name = "pi" THEN {<<"p", "i">>, <<"U+03C0">>}
    ELSE IF name = "infty"
    THEN {<<"i", "n", "f", "i", "n", "i", "t", "y">>, <<"i", "n", "f">>, <<"U+221E">>}
    ELSE {Spell[name], greek_letters[name]}

RECURSIVE C14_Combinations(_)
C14_Combinations(nodelist) ==
    IF nodelist = <<>> THEN {<<>>}
    ELSE {a \o b : a \in C14_Options(Head(nodelist).macroname),
                   b \in C14_Combinations(Tail(nodelist))}

C14_OneOptionPerOccurrence ==
    (/\ pc = "done"
     /\ doc # <<>>
     /\ \A i \in 1..Len(doc) :
          doc[i].kind = "macro" /\ doc[i].macroname \in StochasticNames)
        => /\ out.exc = "none"
           /\ out.text \in C14_Combinations(doc)
           /\ Len(tape) = MaxDrawsPerHandler - Len(doc)
           /\ {custom_latex_to_text(doc, t).text : t \in Tapes} = C14_Combinations(doc)

C14_Witness ==
    /\ pc = "done"
    /\ doc = <<MacroNode("alpha", <<>>), MacroNode("alpha", <<>>)>>
    /\ out.text = <<"U+03B1", "a", "l", "p", "h", "a">>

(***************************************************************************)
(* C15: a construct of the literal symbol table renders as the one text    *)
(* the table has for it, at every occurrence, whatever the generator       *)
(* holds and whatever was drawn before it, and draws nothing itself.       *)
(***************************************************************************)
C15_Table ==
    ("times" :> <<"*">> @@ "cdot" :> <<"*">> @@
     "pm" :> <<"+", "/", "-">> @@ "mp" :> <<"-", "/", "+">> @@
     "approx" :> <<"~">> @@ "sim" :> <<"~", "=">> @@
     "equiv" :> <<"=", "=", "=">> @@
     "subseteq" :> <<"s", "u", "b", "s", "e", "t", "=">> @@
     "iff" :> <<"<", "=", ">">> @@ "mapsto" :> <<"|", "-", ">">> @@
     "ldots" :> <<".", ".", ".">> @@ "cdots" :> <<".", ".", ".">> @@
     "dots" :> <<".", ".", ".">> @@
     "leq" :> <<"<", "=">> @@ "geq" :> <<">", "=">> @@ "neq" :> <<"!", "=">> @@
     "div" :> <<"U+00F7">> @@ "subset" :> <<"U+2282">> @@ "in" :> <<"U+2208">> @@
     "cup" :> <<"U+222A">> @@ "cap" :> <<"U+2229">> @@
     "emptyset" :> <<"U+2205">> @@ "to" :> <<"U+2192">> @@
     "quad" :> <<" ", " ", " ", " ">> @@
     "qquad" :> <<" ", " ", " ", " ", " ", " ", " ", " ">> @@
     "\\" :> <<"\n">> @@ "{" :> <<"{">> @@ "}" :> <<"}">>)

\* the texts of a node of a document of SymbolDocs
C15_Texts(node) ==
    IF node.macroname \in DOMAIN C15_Table THEN {C15_Table[node.macroname]}
    ELSE C14_Options(node.macroname)

C15_SymbolTableIsFixed ==
    (/\ pc = "done"
     /\ doc # <<>>
     /\ \A i \in 1..Len(doc) :
          doc[i].kind = "macro" /\ doc[i].macroname \in DOMAIN C15_Table \cup {"pi"}
     /\ doc[Len(doc)].macroname \in DOMAIN C15_Table)
        => /\ out.exc = "none"
           /\ \E a \in C15_Texts(doc[1]) :
                out.text = IF Len(doc) = 1 THEN a
                           ELSE a \o C15_Table[doc[2].macroname]
           /\ Len(tape) = MaxDrawsPerHandler
                          - Cardinality({i \in 1..Len(doc) : doc[i].macroname = "pi"})
           /\ \A t \in Tapes :
                custom_latex_to_text(<<doc[Len(doc)]>>, t)
                    = Ret(C15_Table[doc[Len(doc)].macroname], t)

C15_Witness ==
    /\ pc = "done"
    /\ doc = <<MacroNode("pi", <<>>), MacroNode("cdot", <<>>)>>
    /\ out.text = <<"U+03C0", "*">>

(***************************************************************************)
(* C16: mathrm returns the letter e when its rendered content is the       *)
(* letter e with nothing but white space around it, and otherwise the      *)
(* rendered content as it is.                                              *)
(***************************************************************************)
C16_IsEulerE(text) ==
    \E i \in 1..Len(text) :
        /\ text[i] = "e"
        /\ \A j \in 1..Len(text) : j # i => text[j] \in Whitespace

C16_MathrmKeepsContent ==
    (CallOf({"mathrm"}) /\ NArgs = 1)
        => /\ out.exc = "none"
           /\ out.text = IF C16_IsEulerE(ArgText(1)) THEN <<"e">> ELSE ArgText(1)
           /\ Len(tape) = MaxDrawsPerHandler

C16_Witness ==
    /\ CallOf({"mathrm"})
    /\ NArgs = 1
    /\ ArgText(1) = <<" ", "e">>
    /\ out = [text |-> <<"e">>, exc |-> "none"]

(***************************************************************************)
(* SpecArg: calls of the standard argument parser on the text in front of  *)
(* a mandatory argument, as lw.parse_content(LatexStandardArgumentParser(  *)
(* arg_spec, return_full_node_list)) makes them.  doc is the list of the   *)
(* nodes returned, call.pos where the reader stands afterwards.            *)
(***************************************************************************)
ArgChars == {"{", "}", "%", "\n", " ", "x"}

ArgSources == StrsUpTo(ArgChars, MaxSrcLen)

InitArg ==
    /\ pc = "idle"
    /\ doc = <<>>
    /\ out = NoOut
    /\ tape = <<>>
    /\ src = <<>>
    /\ prev = NoCall
    /\ call = NoSource
    /\ registry = init_latex_context(<<>>)
    /\ threads = <<>>

ParseArgument ==
    /\ pc = "idle"
    /\ \E s \in ArgSources, arg_spec \in {"m", "{"}, full \in BOOLEAN :
         LET r == standard_argument_parser(arg_spec, full, s, registry)
         IN  /\ doc' = r.nodes
             /\ out' = [text |-> <<>>, exc |-> r.exc]
             /\ call' = [latex |-> s, tape |-> tape, pos |-> r.pos,
                         arg_spec |-> arg_spec, full |-> full]
    /\ pc' = "done"
    /\ UNCHANGED <<tape, src, prev, registry, threads>>

ReturnArgument ==
    /\ pc = "done"
    /\ pc' = "idle"
    /\ doc' = <<>>
    /\ out' = NoOut
    /\ call' = NoSource
    /\ UNCHANGED <<tape, src, prev, registry, threads>>

NextArg ==
    \/ ParseArgument
    \/ ReturnArgument

SpecArg == InitArg /\ [][NextArg]_vars

(***************************************************************************)
(* C17: for a mandatory argument ("m" or "{") whose text is white space    *)
(* and comments and then a brace group, the parser returns the group node  *)
(* of that brace: its pos is the position of the opening brace, its        *)
(* pos_end one past the brace that closes it, and the reader stops there.  *)
(* When the full node list is asked for, the comment nodes skipped come    *)
(* first, in their order, and the group node last.                         *)
(***************************************************************************)
\* the position of the first character that is neither white space nor
\* inside a comment, Len(s) when there is none
RECURSIVE C17_FirstToken(_, _, _)
C17_FirstToken(s, i, inComment) ==
    IF i > Len(s) THEN Len(s)
    ELSE IF inComment THEN C17_FirstToken(s, i + 1, s[i] # "\n")
    ELSE IF s[i] = "%" THEN C17_FirstToken(s, i + 1, TRUE)
    ELSE IF s[i] \in Whitespace THEN C17_FirstToken(s, i + 1, FALSE)
    ELSE i - 1

\* the positions of the % that start the comments in front of position p
C17_CommentStarts(s, p) ==
    {i \in 0..(p - 1) :
        /\ s[i + 1] = "%"
        /\ \A j \in 1..i : s[j] = "%" => \E k \in (j + 1)..i : s[k] = "\n"}

\* the position one past the brace that closes the brace at position p, 0
\* when nothing closes it
RECURSIVE C17_CloseOf(_, _, _)
C17_CloseOf(s, i, open) ==
    IF i > Len(s) THEN 0
    ELSE IF s[i] = "%"
    THEN LET e == CHOOSE k \in i..(Len(s) + 1) :
                      /\ k = Len(s) + 1 \/ s[k] = "\n"
                      /\ \A j \in i..(k - 1) : s[j] # "\n"
         IN  C17_CloseOf(s, e + 1, open)
    ELSE IF s[i] = "{" THEN C17_CloseOf(s, i + 1, open + 1)
    ELSE IF s[i] = "}" THEN IF open = 1 THEN i ELSE C17_CloseOf(s, i + 1, open - 1)
    ELSE C17_CloseOf(s, i + 1, open)

C18_FractionDigits(n) ==
    IF \E k \in 0..5 : Power10(k) % n = 0
    THEN CHOOSE k \in 0..5 : Power10(k) % n = 0 /\ \A j \in 0..(k - 1) : Power10(j) % n # 0
    ELSE 6

\* the texts of 1/n that count as its decimal text: the digits after
\* "0." (1.0 for n = 1), and what str gives for it
C18_DecimalTexts(n) ==
    {StrInverse(n),
     IF n = 1 THEN <<"1", ".", "0">>
     ELSE <<"0", ".">> \o DecimalDigits(1, n, C18_FractionDigits(n))}

C18_NumericIndex ==
    /\ IndexGiven
    /\ float(ArgText(1)).exc = "none"
    /\ float(ArgText(1)).value >= 1
    /\ out.text # <<"s", "q", "r", "t", "(">> \o RadicandText \o <<")">>

C18_DecimalOnlyWhenShort ==
    C18_NumericIndex
        => LET n == float(ArgText(1)).value
               exponents ==
                   {<<"(", "1", "/">> \o ArgText(1) \o <<")">>}
                   \cup (IF C18_FractionDigits(n) <= 5 THEN C18_DecimalTexts(n) ELSE {})
           IN  /\ out.exc = "none"
               /\ out.text \in {Radicand \o op \o e :
                                   op \in {<<"^">>, <<"*", "*">>}, e \in exponents}

(***************************************************************************)
(* C19: custom entries take precedence over baseline entries.  For a name  *)
(* the converter registers and the default context also defines, and for a *)
(* name the converter registers more than once, the signature looked up is *)
(* the last one the converter registers for the name; a macro of a name    *)
(* both define is parsed with that signature, and the text of the call     *)
(* holds the text of the custom handler in its place.                      *)
(***************************************************************************)
C19_CustomNames ==
    {get_custom_macro_specs[i].macroname : i \in 1..Len(get_custom_macro_specs)}

C19_BaselineNames(db) ==
    UNION {names_of(db[k]) :
              k \in {j \in 1..Len(db) :
                        db[j].category \notin {"custom-parsing", "custom-variations"}}}

\* names the converter registers more than once
C19_Repeated ==
    {get_custom_macro_specs[i].macroname :
        i \in {a \in 1..Len(get_custom_macro_specs) :
                  \E b \in 1..(a - 1) :
                      get_custom_macro_specs[b].macroname
                          = get_custom_macro_specs[a].macroname}}

\* for each name, the last entry the converter registers for it
C19_LastCustom ==
    [name \in C19_CustomNames |->
        LET specs == get_custom_macro_specs
            last  == CHOOSE a \in 1..Len(specs) :
                         /\ specs[a].macroname = name
                         /\ \A b \in (a + 1)..Len(specs) : specs[b].macroname # name
        IN  specs[last]]

\* the text the converter's own branch gives for the macro node
C19_CustomText(node, t) ==
    IF node.macroname = "sqrt" THEN custom_sqrt_handler(node, t).text
    ELSE IF node.argnlist = <<>> THEN <<>>
    ELSE nodelist_to_text(<<node.argnlist[1]>>, t).text

C19_CustomTakesPrecedence ==
    /\ \A name \in (C19_CustomNames \cap C19_BaselineNames(registry)) \cup C19_Repeated :
           get_macro_spec(registry, name) = C19_LastCustom[name]
    /\ (pc = "done" /\ out.exc = "none")
           => \A i \in 1..Len(doc) :
                  (/\ doc[i].kind = "macro"
                   /\ doc[i].macroname \in C19_CustomNames
                   /\ doc[i].macroname \in C19_BaselineNames(registry))
                      => /\ Len(doc[i].argnlist)
                              = Len(C19_LastCustom[doc[i].macroname].arguments_spec_list)
                         /\ out.text
                              = nodelist_to_text(SubSeq(doc, 1, i - 1), <<>>).text
                                \o C19_CustomText(doc[i], call.tape)
                                \o nodelist_to_text(SubSeq(doc, i + 1, Len(doc)), <<>>).text

C19_Witness ==
    /\ pc = "done"
    /\ call.latex = <<"\\mathbb", "{", "x", "}">>
    /\ "mathbb" \in C19_BaselineNames(registry)
    /\ Len(doc) = 2
    /\ doc[1].kind = "macro"
    /\ doc[1].argnlist = <<>>
    /\ doc[2].kind = "group"
    /\ out = [text |-> <<"x">>, exc |-> "none"]

(***************************************************************************)
(* C20: rendering changes nothing but the random source.  No step of a     *)
(* sequence of calls changes the converter's context, so it stays the one  *)
(* the converter was built with; the tree of a call that has rendered is   *)
(* the tree the parser built of the text; and a call on a text from a      *)
(* generator state gives the tree and the result an earlier call on the    *)
(* same text from the same generator state gave, whatever calls ran        *)
(* between the two.                                                        *)
(***************************************************************************)
C20_Built == {init_latex_context(d) : d \in DefaultContexts}

C20_SameAsEarlier ==
    (/\ pc = "done"
     /\ prev # NoCall
     /\ call.latex = RecordedSource
     /\ call.tape = prev.src)
        => /\ doc = prev.doc
           /\ out = [text |-> prev.text, exc |-> prev.exc]

C20_TreeAsParsed ==
    (pc = "done") => doc = parse_content(call.latex, registry).nodes

C23_IsZero(text) ==
    LET s == strip(text)
    IN  s # <<>> /\ \A i \in 1..Len(s) : s[i] = "0"

C23_LiteralForms ==
    {Radicand \o op \o <<"(", "1", "/">> \o ArgText(1) \o <<")">> :
        op \in {<<"^">>, <<"*", "*">>}}

C23_ZeroIndexIsRecovered ==
    (IndexGiven /\ C23_IsZero(ArgText(1)))
        => /\ out.exc = "none"
           /\ out.text \in C23_LiteralForms
           /\ \A t \in Tapes :
                  LET r == custom_latex_to_text(doc, t)
                  IN  r.exc = "none" /\ r.text \in C23_LiteralForms

C23_Witness ==
    /\ IndexGiven
    /\ ArgText(1) = <<"0">>
    /\ RadicandText = <<"x">>
    /\ out = [text |-> <<"x", "^", "(", "1", "/", "0", ")">>, exc |-> "none"]

(***************************************************************************)
(* C22: for every radicand, the texts a root with the index text 2 can     *)
(* render as are the texts the same root without an index can render as,   *)
(* be the optional argument None or the argument list the radicand alone.  *)
(* Every call on one of the three forms returns one of these texts.        *)
(***************************************************************************)
\* the texts the node renders as over the generator states, "raises" for a
\* call that raises
C22_Outputs(node) ==
    {LET r == custom_latex_to_text(<<node>>, t)
     IN  IF r.exc = "none" THEN r.text ELSE <<"raises">> : t \in Tapes}

C22_IndexTwo(c) == MacroNode("sqrt", <<Arg(<<"2">>), c>>)

C22_IndexNone(c) == MacroNode("sqrt", <<None, c>>)

C22_NoIndex(c) == MacroNode("sqrt", <<c>>)

C22_IndexTwoLikeNoIndex ==
    (CallOf({"sqrt"}) /\ NArgs \in {1, 2})
        => LET c == doc[1].argnlist[NArgs]
           IN  (doc[1] \in {C22_IndexTwo(c), C22_IndexNone(c), C22_NoIndex(c)})
                  => /\ C22_Outputs(C22_IndexTwo(c)) = C22_Outputs(C22_IndexNone(c))
                     /\ C22_Outputs(C22_IndexTwo(c)) = C22_Outputs(C22_NoIndex(c))
                     /\ out.exc = "none"
                     /\ out.text \in C22_Outputs(C22_IndexTwo(c))
                     /\ Cardinality(C22_Outputs(C22_IndexTwo(c))) = 5

C22_Witness ==
    /\ CallOf({"sqrt"})
    /\ doc[1] = C22_IndexTwo(Arg(<<"x", "+">>))
    /\ out = [text |-> <<"s", "q", "r", "t", "(", "x", "+", ")">>, exc |-> "none"]

(***************************************************************************)
(* SpecThreads: two threads of one process call custom_latex_to_text.  A   *)
(* call takes no random source: the handlers call random.randint and       *)
(* random.choices of the module, the one generator of the process.  The    *)
(* most a caller can do to use a source of its own is to seed the          *)
(* generator from it as the call starts.  A thread can be switched out     *)
(* between two calls of the generator; one call of the generator is        *)
(* atomic.  A thread holds its document, the state src of its own source,  *)
(* the outcomes it has drawn so far and its result.                        *)
(***************************************************************************)
Threads == {"A", "B"}

IdleThread == [pc |-> "idle", doc |-> <<>>, src |-> <<>>, drawn |-> <<>>, out |-> NoOut]

\* a source holds the outcomes of the draws the calls of all threads can make
SourceLen == Cardinality(Threads) * MaxDrawsPerHandler

\* the states of the callers' sources: one outcome throughout, or the
\* outcomes in turn
ThreadSources ==
    {[k \in 1..SourceLen |-> c] : c \in Cells}
    \cup {[k \in 1..SourceLen |-> k % 4]}

ThreadDocs ==
    {<<MacroNode("infty", <<>>)>>,
     <<MacroNode("sqrt", <<None, Arg(<<"x">>)>>)>>,
     <<MacroNode("sqrt", <<Arg(<<"3">>), Arg(<<"x">>)>>)>>,
     <<CharsNode(<<"x">>)>>}

\* outcomes that stand for the draws a call has not made yet
Undrawn == [k \in 1..MaxDrawsPerHandler |-> 0]

\* the calls of the generator the rendering of d makes when the first ones
\* give the outcomes drawn
draws_made(d, drawn) ==
    Len(drawn) + Len(Undrawn) - Len(custom_latex_to_text(d, drawn \o Undrawn).tape)

InitThreads ==
    /\ pc = "idle"
    /\ doc = <<>>
    /\ out = NoOut
    /\ tape \in ThreadSources
    /\ src = <<>>
    /\ prev = NoCall
    /\ call = NoSource
    /\ registry = <<>>
    /\ threads = [i \in Threads |-> IdleThread]

\* the thread seeds the generator from its source and calls
\* custom_latex_to_text on a document
Begin(i) ==
    /\ threads[i].pc = "idle"
    /\ \E d \in ThreadDocs, s \in ThreadSources :
         /\ threads' = [threads EXCEPT ![i] = [IdleThread EXCEPT !.pc = "running",
                                                                  !.doc = d, !.src = s]]
         /\ tape' = s
    /\ UNCHANGED <<pc, doc, out, src, prev, call, registry>>

\* the next random.randint or random.choices of the call of the thread
Draw(i) ==
    /\ threads[i].pc = "running"
    /\ draws_made(threads[i].doc, threads[i].drawn) > Len(threads[i].drawn)
    /\ tape # <<>>
    /\ threads' = [threads EXCEPT ![i].drawn = Append(@, Head(tape))]
    /\ tape' = Tail(tape)
    /\ UNCHANGED <<pc, doc, out, src, prev, call, registry>>

\* the call of the thread returns
Finish(i) ==
    /\ threads[i].pc = "running"
    /\ draws_made(threads[i].doc, threads[i].drawn) <= Len(threads[i].drawn)
    /\ LET r == custom_latex_to_text(threads[i].doc, threads[i].drawn)
       IN  threads' = [threads EXCEPT ![i].pc = "done",
                                      ![i].out = [text |-> r.text, exc |-> r.exc]]
    /\ UNCHANGED <<pc, doc, out, tape, src, prev, call, registry>>

\* the caller takes the result
Join(i) ==
    /\ threads[i].pc = "done"
    /\ threads' = [threads EXCEPT ![i] = IdleThread]
    /\ UNCHANGED <<pc, doc, out, tape, src, prev, call, registry>>

NextThreads ==
    \/ \E i \in Threads : Begin(i)
    \/ \E i \in Threads : Draw(i)
    \/ \E i \in Threads : Finish(i)
    \/ \E i \in Threads : Join(i)

SpecThreads == InitThreads /\ [][NextThreads]_vars

(***************************************************************************)
(* C21: two calls that run concurrently, each with a random source of its  *)
(* own, share no mutable state: in every interleaving the result of a call *)
(* is the result the call gives when it runs alone from the same state of  *)
(* its source.  The calls share the generator of the random module.        *)
(***************************************************************************)
C21_Alone(th) ==
    LET r == custom_latex_to_text(th.doc, th.src)
    IN  [text |-> r.text, exc |-> r.exc]

C21_ConcurrentCallsAreIndependent ==
    \A i \in Threads :
        threads[i].pc = "done" => threads[i].out = C21_Alone(threads[i])

=============================================================================
